---------------------------- MODULE Spec2Model ----------------------------
(***************************************************************************)
(* JotDB: an embedded JSON document store over a transactional key/value   *)
(* backend, with a hand-written JSON codec and secondary posting lists.    *)
(*                                                                         *)
(* Go strings and byte slices are sequences of code points (a non-ASCII    *)
(* rune is one element: the decoder copies its UTF-8 bytes through         *)
(* unchanged, so it is never split).  Go values of type interface{} are    *)
(* records [t |-> dynamic type, v |-> payload]:                            *)
(*   nil      <<>>                                                         *)
(*   bool     TRUE / FALSE                                                 *)
(*   string   sequence of code points                                      *)
(*   float64  <<neg, d, dp>>  shortest decimal digits d, value 0.d * 10^dp *)
(*   int      <<neg, d>>      decimal digits d without leading zeros       *)
(*   int64    <<neg, d>>      (the type the decoder produces)              *)
(*   array    sequence of values            ([]interface{})                *)
(*   object   function from strings to values (map[string]interface{})     *)
(***************************************************************************)
EXTENDS Integers, Sequences, FiniteSets, TLC

-----------------------------------------------------------------------------
(* Value constructors *)

NilV == [t |-> "nil", v |-> <<>>]
BoolV(b) == [t |-> "bool", v |-> b]
StringV(s) == [t |-> "string", v |-> s]
FloatV(neg, d, dp) == [t |-> "float64", v |-> <<neg, d, dp>>]
IntV(neg, d) == [t |-> "int", v |-> <<neg, d>>]
Int64V(neg, d) == [t |-> "int64", v |-> <<neg, d>>]
ArrayV(items) == [t |-> "array", v |-> items]
ObjectV(m) == [t |-> "object", v |-> m]

EmptyMap == <<>>

MapPut(m, k, val) == [x \in (DOMAIN m) \cup {k} |-> IF x = k THEN val ELSE m[x]]

-----------------------------------------------------------------------------
(* Sequence helpers *)

RECURSIVE Concat(_)
Concat(ss) == IF ss = <<>> THEN <<>> ELSE Head(ss) \o Concat(Tail(ss))

Contains(s, c) == \E i \in 1..Len(s) : s[i] = c

Digit(c) == c >= 48 /\ c <= 57

DigitChars(d) == [i \in 1..Len(d) |-> 48 + d[i]]

\* drop leading zero digits, keeping at least one digit
RECURSIVE StripZeros(_)
StripZeros(d) == IF Len(d) > 1 /\ d[1] = 0 THEN StripZeros(Tail(d)) ELSE d

\* drop trailing zero digits
RECURSIVE StripTrailing(_)
StripTrailing(d) ==
  IF d # <<>> /\ d[Len(d)] = 0 THEN StripTrailing(SubSeq(d, 1, Len(d) - 1)) ELSE d

\* drop every leading zero digit
RECURSIVE StripLeading(_)
StripLeading(d) == IF d # <<>> /\ d[1] = 0 THEN StripLeading(Tail(d)) ELSE d

\* lexicographic order on sequences of integers
RECURSIVE SeqLess(_, _)
SeqLess(a, b) ==
  IF b = <<>> THEN FALSE
  ELSE IF a = <<>> THEN TRUE
  ELSE IF a[1] # b[1] THEN a[1] < b[1]
  ELSE SeqLess(Tail(a), Tail(b))

\* magnitude order on digit strings without leading zeros
DigitsGreater(a, b) == Len(a) > Len(b) \/ (Len(a) = Len(b) /\ SeqLess(b, a))

\* decimal digits of a natural number
RECURSIVE NatDigits(_)
NatDigits(n) == IF n < 10 THEN <<n>> ELSE Append(NatDigits(n \div 10), n % 10)

\* value of a short digit string
RECURSIVE DigitsNat(_)
DigitsNat(d) ==
  IF d = <<>> THEN 0 ELSE 10 * DigitsNat(SubSeq(d, 1, Len(d) - 1)) + d[Len(d)]

-----------------------------------------------------------------------------
(* Encoder: marshalJSON / writeJSON / escapeString *)

MaxRune == 1114111

HexChar(n) == IF n < 10 THEN 48 + n ELSE 87 + n

\* digits of fmt's %x
RECURSIVE HexDigits(_)
HexDigits(n) == IF n < 16 THEN <<HexChar(n)>> ELSE Append(HexDigits(n \div 16), HexChar(n % 16))

\* fmt.Fprintf(buf, `\u%04x`, r): at least four digits, more when r needs them
Hex04(r) ==
  LET h == HexDigits(r)
  IN  [i \in 1..(IF Len(h) < 4 THEN 4 - Len(h) ELSE 0) |-> 48] \o h

escapeRune(r) ==
  CASE r = 34 -> <<92, 34>>
    [] r = 92 -> <<92, 92>>
    [] r = 8  -> <<92, 98>>
    [] r = 12 -> <<92, 102>>
    [] r = 10 -> <<92, 110>>
    [] r = 13 -> <<92, 114>>
    [] r = 9  -> <<92, 116>>
    [] OTHER  -> IF r < 32 \/ r >= MaxRune \/ r = 8232 \/ r = 8233
                 THEN <<92, 117>> \o Hex04(r)
                 ELSE <<r>>

escapeString(s) == <<34>> \o Concat([i \in 1..Len(s) |-> escapeRune(s[i])]) \o <<34>>

\* strconv %f with the shortest precision: max(nd - dp, 0) fraction digits
fmtF(neg, d, dp) ==
  LET nd == Len(d)
      prec == IF nd - dp > 0 THEN nd - dp ELSE 0
      int == IF dp > 0 THEN [i \in 1..dp |-> IF i <= nd THEN 48 + d[i] ELSE 48]
             ELSE <<48>>
      frac == IF prec > 0
              THEN <<46>> \o [i \in 1..prec |->
                        IF dp + i >= 1 /\ dp + i <= nd THEN 48 + d[dp + i] ELSE 48]
              ELSE <<>>
  IN  (IF neg THEN <<45>> ELSE <<>>) \o int \o frac

\* strconv %e with nd - 1 fraction digits
fmtE(neg, d, dp) ==
  LET nd == Len(d)
      first == IF nd = 0 THEN <<48>> ELSE <<48 + d[1]>>
      frac == IF nd > 1 THEN <<46>> \o [i \in 1..(nd - 1) |-> 48 + d[i + 1]] ELSE <<>>
      exp == IF nd = 0 THEN 0 ELSE dp - 1
      mag == IF exp < 0 THEN 0 - exp ELSE exp
      expDigits == IF mag < 10 THEN <<48, 48 + mag>> ELSE DigitChars(NatDigits(mag))
  IN  (IF neg THEN <<45>> ELSE <<>>) \o first \o frac
        \o <<101>> \o (IF exp < 0 THEN <<45>> ELSE <<43>>) \o expDigits

\* strconv.FormatFloat(val, 'f', -1, 64)
FormatFloat(f) == fmtF(f[1], f[2], f[3])

\* strconv.Itoa(val)
Itoa(n) == (IF n[1] THEN <<45>> ELSE <<>>) \o DigitChars(n[2])

\* the orders in which a Go map may be iterated
KeyOrders(m) ==
  {o \in [1..Cardinality(DOMAIN m) -> DOMAIN m] :
      \A i, j \in DOMAIN o : i # j => o[i] # o[j]}

\* writeJSON returns an error: some value reached has a type the switch lacks
RECURSIVE Encodable(_)
Encodable(val) ==
  CASE val.t \in {"nil", "string", "float64", "int", "bool"} -> TRUE
    [] val.t = "object" -> \A k \in DOMAIN val.v : Encodable(val.v[k])
    [] val.t = "array"  -> \A i \in DOMAIN val.v : Encodable(val.v[i])
    [] OTHER -> FALSE

\* every concatenation taking one element from each set of the sequence,
\* separated by commas
RECURSIVE JoinAll(_)
JoinAll(sets) ==
  IF sets = <<>> THEN {<<>>}
  ELSE IF Len(sets) = 1 THEN sets[1]
  ELSE {a \o <<44>> \o b : a \in sets[1], b \in JoinAll(Tail(sets))}

\* the byte sequences writeJSON may produce for an encodable value
RECURSIVE writeJSON(_)
writeJSON(val) ==
  CASE val.t = "nil"     -> {<<110, 117, 108, 108>>}
    [] val.t = "string"  -> {escapeString(val.v)}
    [] val.t = "float64" -> {FormatFloat(val.v)}
    [] val.t = "int"     -> {Itoa(val.v)}
    [] val.t = "bool"    -> {IF val.v THEN <<116, 114, 117, 101>>
                                      ELSE <<102, 97, 108, 115, 101>>}
    [] val.t = "object"  ->
         UNION {{<<123>> \o body \o <<125>> :
                   body \in JoinAll([i \in DOMAIN o |->
                              {escapeString(o[i]) \o <<58>> \o e : e \in writeJSON(val.v[o[i]])}])}
                : o \in KeyOrders(val.v)}
    [] val.t = "array"   ->
         {<<91>> \o body \o <<93>> :
            body \in JoinAll([i \in DOMAIN val.v |-> writeJSON(val.v[i])])}

\* an encoder that writes null for a value of a type it has no case for
marshalJSONLenient(val) ==
  IF Encodable(val) THEN {[err |-> FALSE, data |-> b] : b \in writeJSON(val)}
  ELSE {[err |-> FALSE, data |-> <<110, 117, 108, 108>>]}

\* marshalJSON: the set of outcomes, each [err, data]
marshalJSON(val) ==
  IF Encodable(val) THEN {[err |-> FALSE, data |-> b] : b \in writeJSON(val)}
  ELSE {[err |-> TRUE, data |-> <<>>]}

-----------------------------------------------------------------------------
(* Decoder: unmarshalJSON / jsonParser *)

\* outcome of a parser method: st is "ok", "err" (an error is returned) or
\* "panic" (index out of range); pos is p.pos afterwards
Ok(val, pos) == [st |-> "ok", v |-> val, pos |-> pos]
Err(pos) == [st |-> "err", v |-> NilV, pos |-> pos]
Panic(pos) == [st |-> "panic", v |-> NilV, pos |-> pos]

\* p.data[pos] for 0 <= pos < p.total
At(data, pos) == data[pos + 1]

Slice(data, from, to) == SubSeq(data, from + 1, to)

RECURSIVE skipWhitespace(_, _)
skipWhitespace(data, pos) ==
  IF pos < Len(data) /\ At(data, pos) \in {32, 10, 13, 9}
  THEN skipWhitespace(data, pos + 1)
  ELSE pos

HexDigitVal(c) ==
  IF Digit(c) THEN c - 48
  ELSE IF c >= 97 /\ c <= 102 THEN c - 87
  ELSE IF c >= 65 /\ c <= 70 THEN c - 55
  ELSE -1

\* strconv.ParseUint(s, 16, 32) of four bytes: -1 for a syntax error
ParseUint16(s) ==
  IF \E i \in 1..4 : HexDigitVal(s[i]) < 0 THEN -1
  ELSE 4096 * HexDigitVal(s[1]) + 256 * HexDigitVal(s[2])
         + 16 * HexDigitVal(s[3]) + HexDigitVal(s[4])

\* sb.WriteRune: a surrogate half is written as U+FFFD
WriteRune(code) == IF code >= 55296 /\ code <= 57343 THEN 65533 ELSE code

\* parseString with p.pos at the opening quote; v is the Go string
RECURSIVE parseStringLoop(_, _, _)
parseStringLoop(data, pos, sb) ==
  IF pos < Len(data) /\ At(data, pos) # 34
  THEN LET c == At(data, pos)
       IN  IF c = 92
           THEN IF pos + 1 >= Len(data) THEN Err(pos + 1)
                ELSE LET e == At(data, pos + 1)
                     IN  CASE e \in {34, 92, 47} -> parseStringLoop(data, pos + 2, Append(sb, e))
                           [] e = 98  -> parseStringLoop(data, pos + 2, Append(sb, 8))
                           [] e = 102 -> parseStringLoop(data, pos + 2, Append(sb, 12))
                           [] e = 110 -> parseStringLoop(data, pos + 2, Append(sb, 10))
                           [] e = 114 -> parseStringLoop(data, pos + 2, Append(sb, 13))
                           [] e = 116 -> parseStringLoop(data, pos + 2, Append(sb, 9))
                           [] e = 117 ->
                                IF pos + 1 + 4 >= Len(data) THEN Err(pos + 1)
                                ELSE LET code == ParseUint16(Slice(data, pos + 2, pos + 6))
                                     IN  IF code < 0 THEN Err(pos + 1)
                                         ELSE parseStringLoop(data, pos + 6,
                                                 Append(sb, WriteRune(code)))
                           [] OTHER -> Err(pos + 1)
           ELSE parseStringLoop(data, pos + 1, Append(sb, c))
  ELSE IF pos >= Len(data) THEN Err(pos)
  ELSE Ok(sb, pos + 1)

parseString(data, pos) == parseStringLoop(data, pos + 1, <<>>)

\* the end of the maximal run of [0-9eE+-.] starting at pos
RECURSIVE numberEnd(_, _)
numberEnd(data, pos) ==
  IF pos < Len(data) /\ (At(data, pos) \in {45, 46, 101, 69, 43} \/ Digit(At(data, pos)))
  THEN numberEnd(data, pos + 1)
  ELSE pos

\* the end of the run of decimal digits starting at index i (1-based) of s
RECURSIVE digitsEnd(_, _)
digitsEnd(s, i) == IF i <= Len(s) /\ Digit(s[i]) THEN digitsEnd(s, i + 1) ELSE i

MaxInt64Digits == <<9, 2, 2, 3, 3, 7, 2, 0, 3, 6, 8, 5, 4, 7, 7, 5, 8, 0, 7>>
MinInt64Digits == <<9, 2, 2, 3, 3, 7, 2, 0, 3, 6, 8, 5, 4, 7, 7, 5, 8, 0, 8>>

\* a ParseInt without the 64-bit range check
ParseIntUnbounded(s) ==
  LET digits(neg, body) ==
        IF body = <<>> \/ \E i \in 1..Len(body) : ~Digit(body[i])
        THEN [err |-> TRUE, neg |-> FALSE, d |-> <<0>>]
        ELSE [err |-> FALSE, neg |-> neg, d |-> StripZeros([i \in 1..Len(body) |-> body[i] - 48])]
  IN  digits(s # <<>> /\ s[1] = 45,
             IF s # <<>> /\ s[1] \in {43, 45} THEN Tail(s) ELSE s)

\* strconv.ParseInt(s, 10, 64): [err, neg, d]
ParseInt(s) ==
  LET range(neg, d) ==
        IF DigitsGreater(d, IF neg THEN MinInt64Digits ELSE MaxInt64Digits)
        THEN [err |-> TRUE, neg |-> FALSE, d |-> <<0>>]
        ELSE [err |-> FALSE, neg |-> neg /\ d # <<0>>, d |-> d]
      digits(neg, body) ==
        IF body = <<>> \/ \E i \in 1..Len(body) : ~Digit(body[i])
        THEN [err |-> TRUE, neg |-> FALSE, d |-> <<0>>]
        ELSE range(neg, StripZeros([i \in 1..Len(body) |-> body[i] - 48]))
  IN  digits(s # <<>> /\ s[1] = 45,
             IF s # <<>> /\ s[1] \in {43, 45} THEN Tail(s) ELSE s)

\* largest decimal exponent of a finite float64 (1.797...e308 = 0.1797...e309)
MaxFloatDp == 309
MaxFloatDigits == <<1, 7, 9, 7, 6, 9, 3, 1, 3, 4, 8, 6, 2, 3, 1, 5, 8>>
\* below this decimal exponent a literal rounds to zero
MinFloatDp == -323

\* strconv.ParseFloat(s, 64) on a literal of at most 15 significant digits:
\* [err, neg, d, dp].  The literal is read left to right: sign, integer
\* digits up to i1, fraction digits up to i2, exponent digits from i3 to i4.
ParseFloat(s) ==
  LET fail == [err |-> TRUE, neg |-> FALSE, d |-> <<>>, dp |-> 0]
      range(neg, d, dp) ==
        IF dp > MaxFloatDp \/ (dp = MaxFloatDp /\ ~SeqLess(d, MaxFloatDigits)) THEN fail
        ELSE IF dp < MinFloatDp THEN [err |-> FALSE, neg |-> neg, d |-> <<>>, dp |-> 0]
        ELSE [err |-> FALSE, neg |-> neg, d |-> d, dp |-> dp]
      point(neg, d, intLen, zeros, e) ==
        range(neg, d, IF d = <<>> THEN 0 ELSE intLen - zeros + e)
      mantissa(neg, all, lead, intLen, e) ==
        point(neg, StripTrailing(lead), intLen, Len(all) - Len(lead), e)
      \* an exponent of more than four digits saturates
      scaled(neg, all, intLen, eneg, expDigits) ==
        mantissa(neg, all, StripLeading(all), intLen,
                 IF Len(expDigits) > 4
                 THEN (IF eneg THEN -10000 ELSE 10000)
                 ELSE (IF eneg THEN 0 - DigitsNat(expDigits) ELSE DigitsNat(expDigits)))
      exponent(neg, all, intLen, hasExp, eneg, i3, i4) ==
        IF all = <<>> \/ (hasExp /\ i4 = i3) \/ i4 # Len(s) + 1 THEN fail
        ELSE scaled(neg, all, intLen, eneg,
                    IF hasExp THEN StripZeros([i \in 1..(i4 - i3) |-> s[i3 + i - 1] - 48])
                    ELSE <<0>>)
      expSign(neg, all, intLen, i2, hasExp, signed) ==
        exponent(neg, all, intLen, hasExp, hasExp /\ signed /\ s[i2 + 1] = 45,
                 IF hasExp /\ signed THEN i2 + 2 ELSE i2 + 1,
                 IF hasExp THEN digitsEnd(s, IF signed THEN i2 + 2 ELSE i2 + 1) ELSE i2)
      fraction(neg, i0, i1, dot, i2) ==
        expSign(neg,
                [i \in 1..(i1 - i0) |-> s[i0 + i - 1] - 48]
                  \o (IF dot THEN [i \in 1..(i2 - i1 - 1) |-> s[i1 + i] - 48] ELSE <<>>),
                i1 - i0, i2,
                i2 <= Len(s) /\ s[i2] \in {101, 69},
                i2 + 1 <= Len(s) /\ s[i2 + 1] \in {43, 45})
      integer(neg, i0, i1, dot) ==
        fraction(neg, i0, i1, dot, IF dot THEN digitsEnd(s, i1 + 1) ELSE i1)
      sign(neg, i0, i1) == integer(neg, i0, i1, i1 <= Len(s) /\ s[i1] = 46)
      start(neg, i0) == sign(neg, i0, digitsEnd(s, i0))
  IN  start(s # <<>> /\ s[1] = 45, IF s # <<>> /\ s[1] \in {43, 45} THEN 2 ELSE 1)

\* parseNumber: the float branch, the integer branch, the choice between them
parseNumberFloat(f, end) ==
  IF f.err THEN Err(end) ELSE Ok(FloatV(f.neg, f.d, f.dp), end)

parseNumberInt(n, end) ==
  IF n.err THEN Err(end) ELSE Ok(Int64V(n.neg, n.d), end)

parseNumberStr(numStr, end) ==
  IF Contains(numStr, 46) \/ Contains(numStr, 101) \/ Contains(numStr, 69)
  THEN parseNumberFloat(ParseFloat(numStr), end)
  ELSE parseNumberInt(ParseInt(numStr), end)

parseNumber(data, pos) ==
  parseNumberStr(Slice(data, pos, numberEnd(data, pos)), numberEnd(data, pos))

Literal(data, pos, word) ==
  pos + Len(word) <= Len(data) /\ Slice(data, pos, pos + Len(word)) = word

RECURSIVE parse(_, _), parseObjectLoop(_, _, _), parseArrayLoop(_, _, _)

\* parse, case '"'
parseStringValue(s) == IF s.st = "ok" THEN Ok(StringV(s.v), s.pos) ELSE Err(s.pos)

\* parseObject up to its loop, p1 being p.pos after the whitespace
parseObject(data, p1) ==
  IF p1 < Len(data) /\ At(data, p1) = 125
  THEN Ok(ObjectV(EmptyMap), p1 + 1)
  ELSE parseObjectLoop(data, p1, EmptyMap)

\* parseArray up to its loop, p1 being p.pos after the whitespace
parseArray(data, p1) ==
  IF p1 < Len(data) /\ At(data, p1) = 93
  THEN Ok(ArrayV(<<>>), p1 + 1)
  ELSE parseArrayLoop(data, p1, <<>>)

\* parse with p.pos = pos after the whitespace
parseAt(data, pos) ==
  IF pos >= Len(data) THEN Err(pos)
  ELSE CASE At(data, pos) = 123 -> parseObject(data, skipWhitespace(data, pos + 1))
         [] At(data, pos) = 91 -> parseArray(data, skipWhitespace(data, pos + 1))
         [] At(data, pos) = 34 -> parseStringValue(parseString(data, pos))
         [] At(data, pos) = 116 ->
              IF Literal(data, pos, <<116, 114, 117, 101>>)
              THEN Ok(BoolV(TRUE), pos + 4) ELSE Err(pos)
         [] At(data, pos) = 102 ->
              IF Literal(data, pos, <<102, 97, 108, 115, 101>>)
              THEN Ok(BoolV(FALSE), pos + 5) ELSE Err(pos)
         [] At(data, pos) = 110 ->
              IF Literal(data, pos, <<110, 117, 108, 108>>)
              THEN Ok(NilV, pos + 4) ELSE Err(pos)
         [] At(data, pos) = 45 \/ Digit(At(data, pos)) -> parseNumber(data, pos)
         [] OTHER -> Err(pos)

parse(data, pos0) == parseAt(data, skipWhitespace(data, pos0))

\* parseObject after a member: '}' ends the object, ',' continues the loop
parseObjectNext(data, obj2, p4) ==
  IF p4 < Len(data) /\ At(data, p4) = 125 THEN Ok(ObjectV(obj2), p4 + 1)
  ELSE IF p4 >= Len(data) \/ At(data, p4) # 44 THEN Err(p4)
  ELSE parseObjectLoop(data, p4 + 1, obj2)

parseObjectMember(data, obj, keyStr, value) ==
  IF value.st # "ok" THEN value
  ELSE parseObjectNext(data, MapPut(obj, keyStr, value.v), skipWhitespace(data, value.pos))

parseObjectColon(data, obj, keyStr, p2) ==
  IF p2 >= Len(data) \/ At(data, p2) # 58 THEN Err(p2)
  ELSE parseObjectMember(data, obj, keyStr, parse(data, skipWhitespace(data, p2 + 1)))

parseObjectKey(data, obj, key) ==
  IF key.st # "ok" THEN Err(key.pos)
  ELSE parseObjectColon(data, obj, key.v, skipWhitespace(data, key.pos))

parseObjectQuote(data, obj, p1) ==
  IF p1 >= Len(data) THEN Panic(p1)
  ELSE IF At(data, p1) # 34 THEN Err(p1)
  ELSE parseObjectKey(data, obj, parseString(data, p1))

\* the loop of parseObject, entered with p.pos = pos0 and obj built so far
parseObjectLoop(data, pos0, obj) ==
  IF pos0 < Len(data) THEN parseObjectQuote(data, obj, skipWhitespace(data, pos0))
  ELSE Err(pos0)

\* parseArray after an element: ']' ends the array, ',' continues the loop
parseArrayNext(data, arr2, p2) ==
  IF p2 < Len(data) /\ At(data, p2) = 93 THEN Ok(ArrayV(arr2), p2 + 1)
  ELSE IF p2 >= Len(data) \/ At(data, p2) # 44 THEN Err(p2)
  ELSE parseArrayLoop(data, skipWhitespace(data, p2 + 1), arr2)

parseArrayElement(data, arr, value) ==
  IF value.st # "ok" THEN value
  ELSE parseArrayNext(data, Append(arr, value.v), skipWhitespace(data, value.pos))

\* the loop of parseArray, entered with p.pos = pos0 and arr built so far
parseArrayLoop(data, pos0, arr) ==
  IF pos0 < Len(data) THEN parseArrayElement(data, arr, parse(data, pos0))
  ELSE Err(pos0)

\* unmarshalJSON(data, &target) for a target of type *interface{}
unmarshalJSON(data) == parse(data, 0)

\* unmarshalJSON(data, &docMap): the type assertion to map[string]interface{}
unmarshalMapAssign(r) == IF r.st = "ok" /\ r.v.t # "object" THEN Err(r.pos) ELSE r

\* unmarshalJSON(data, &docMap) for a target of type *map[string]interface{}
unmarshalMap(data) == unmarshalMapAssign(parse(data, 0))

-----------------------------------------------------------------------------
(* fmt.Sprintf("%v", value): the bucket identifier of a field value *)

\* strconv %g with the shortest precision, as fmt prints a float64 for %v
fmtG(neg, d, dp) ==
  IF dp - 1 < -4 \/ dp - 1 >= 6 THEN fmtE(neg, d, dp) ELSE fmtF(neg, d, dp)

\* the keys of a map in increasing order, as fmt prints a map
RECURSIVE SortedKeys(_)
SortedKeys(ks) ==
  IF ks = {} THEN <<>>
  ELSE LET m == CHOOSE k \in ks : \A o \in ks : o = k \/ SeqLess(k, o)
       IN  <<m>> \o SortedKeys(ks \ {m})

RECURSIVE JoinSpace(_)
JoinSpace(ss) ==
  IF ss = <<>> THEN <<>>
  ELSE IF Len(ss) = 1 THEN ss[1]
  ELSE ss[1] \o <<32>> \o JoinSpace(Tail(ss))

RECURSIVE Sprintf(_)
Sprintf(val) ==
  CASE val.t = "nil"     -> <<60, 110, 105, 108, 62>>
    [] val.t = "bool"    -> IF val.v THEN <<116, 114, 117, 101>> ELSE <<102, 97, 108, 115, 101>>
    [] val.t = "string"  -> val.v
    [] val.t = "float64" -> fmtG(val.v[1], val.v[2], val.v[3])
    [] val.t \in {"int", "int64"} -> Itoa(val.v)
    [] val.t = "array"   ->
         <<91>> \o JoinSpace([i \in DOMAIN val.v |-> Sprintf(val.v[i])]) \o <<93>>
    [] val.t = "object"  ->
         LET ks == SortedKeys(DOMAIN val.v)
         IN  <<109, 97, 112, 91>>
               \o JoinSpace([i \in DOMAIN ks |-> ks[i] \o <<58>> \o Sprintf(val.v[ks[i]])])
               \o <<93>>

-----------------------------------------------------------------------------
(* Backend: the bitcask key space and its transactions.                    *)
(* A backend state is a function from keys to values (byte sequences).     *)
(* A handler threads s = [db, puts, dels, n]: the committed key space, the *)
(* transaction's pending writes and deletes, and the number of backend     *)
(* calls made so far.  The call numbered `fail` returns an I/O error       *)
(* (fail = 0: no call fails).                                              *)

DocPrefix == <<100, 111, 99, 58>>               \* "doc:"
IndexPrefix == <<105, 110, 100, 101, 120, 58>>  \* "index:"

\* tx := j.db.Transaction()
Transaction(db0) == [db |-> db0, puts |-> EmptyMap, dels |-> {}, n |-> 0]

MapRemove(m, k) == [x \in (DOMAIN m) \ {k} |-> m[x]]

\* a Get that does not see the pending writes of its own transaction
txGetCommitted(s, k, fail) ==
  LET s1 == [s EXCEPT !.n = s.n + 1]
  IN  IF s1.n = fail THEN [st |-> "error", data |-> <<>>, s |-> s1]
      ELSE IF k \notin DOMAIN s.db THEN [st |-> "notfound", data |-> <<>>, s |-> s1]
      ELSE [st |-> "ok", data |-> s.db[k], s |-> s1]

\* tx.Get(key): st is "ok", "notfound" or "error"
txGet(s, k, fail) ==
  LET s1 == [s EXCEPT !.n = s.n + 1]
  IN  IF s1.n = fail THEN [st |-> "error", data |-> <<>>, s |-> s1]
      ELSE IF k \in DOMAIN s.puts THEN [st |-> "ok", data |-> s.puts[k], s |-> s1]
      ELSE IF k \in s.dels \/ k \notin DOMAIN s.db THEN [st |-> "notfound", data |-> <<>>, s |-> s1]
      ELSE [st |-> "ok", data |-> s.db[k], s |-> s1]

\* a Put that bypasses the transaction and writes the key space directly
txPutWriteThrough(s, k, val, fail) ==
  LET s1 == [s EXCEPT !.n = s.n + 1]
  IN  IF s1.n = fail THEN [err |-> TRUE, s |-> s1]
      ELSE [err |-> FALSE, s |-> [s1 EXCEPT !.db = MapPut(s.db, k, val)]]

\* tx.Put(key, value)
txPut(s, k, val, fail) ==
  LET s1 == [s EXCEPT !.n = s.n + 1]
  IN  IF s1.n = fail THEN [err |-> TRUE, s |-> s1]
      ELSE [err |-> FALSE,
            s |-> [s1 EXCEPT !.puts = MapPut(s.puts, k, val), !.dels = s.dels \ {k}]]

\* tx.Delete(key)
txDelete(s, k, fail) ==
  LET s1 == [s EXCEPT !.n = s.n + 1]
  IN  IF s1.n = fail THEN [err |-> TRUE, s |-> s1]
      ELSE [err |-> FALSE,
            s |-> [s1 EXCEPT !.puts = MapRemove(s.puts, k), !.dels = s.dels \cup {k}]]

\* tx.Commit(): all pending writes become visible at once, or none
txCommit(s, fail) ==
  LET s1 == [s EXCEPT !.n = s.n + 1]
  IN  IF s1.n = fail THEN [err |-> TRUE, s |-> s1]
      ELSE [err |-> FALSE,
            s |-> [s1 EXCEPT !.db = [k \in ((DOMAIN s.db) \ s.dels) \cup DOMAIN s.puts |->
                                       IF k \in DOMAIN s.puts THEN s.puts[k] ELSE s.db[k]],
                             !.puts = EmptyMap, !.dels = {}]]

\* j.db.Get(key) outside a transaction
dbGet(db0, k, n, fail) ==
  IF n = fail THEN [st |-> "error", data |-> <<>>]
  ELSE IF k \in DOMAIN db0 THEN [st |-> "ok", data |-> db0[k]]
  ELSE [st |-> "notfound", data |-> <<>>]

\* json.Marshal(keyList) of encoding/json for a []string of plain keys
jsonMarshalList(keyList) ==
  IF keyList = <<>> THEN <<91, 93>>
  ELSE CHOOSE b \in writeJSON(ArrayV([i \in DOMAIN keyList |-> StringV(keyList[i])])) : TRUE

\* json.Unmarshal(current, &keyList) of encoding/json: [err, list]
jsonUnmarshalValue(data, r) ==
  IF r.st = "ok" /\ r.pos = Len(data) /\ r.v.t = "nil" THEN [err |-> FALSE, list |-> <<>>]
  ELSE IF r.st = "ok" /\ r.pos = Len(data) /\ r.v.t = "array"
          /\ \A i \in DOMAIN r.v.v : r.v.v[i].t = "string"
  THEN [err |-> FALSE, list |-> [i \in DOMAIN r.v.v |-> r.v.v[i].v]]
  ELSE [err |-> TRUE, list |-> <<>>]

jsonUnmarshalList(data) == jsonUnmarshalValue(data, parse(data, 0))

-----------------------------------------------------------------------------
(* Document store handlers.  A writer returns [err, db, n]: the error kind *)
(* ("none" for success), the committed key space when it returns (the      *)
(* deferred tx.Discard() drops whatever is still pending) and the number   *)
(* of backend calls it made.  A reader returns [err, val, n].              *)

\* an index key without the delimiter between field and bucket
indexKeyOfUndelimited(field, value) == IndexPrefix \o field \o Sprintf(value)

\* the configured j.indexedFields: "a", "b"
IndexedFields == <<<<97>>, <<98>>>>

\* n: the number of backend calls the handler made
Ret(e, s) == [err |-> e, db |-> s.db, n |-> s.n]

docKeyOf(key) == DocPrefix \o key

indexKeyOf(field, value) == IndexPrefix \o field \o <<58>> \o Sprintf(value)

\* tx.Commit() and the return that follows it
commitReturn(commit) ==
  IF commit.err THEN Ret("backend", commit.s) ELSE Ret("none", commit.s)

\* Store, the loop over j.indexedFields from position i on: [err, s].  One
\* field: read the posting list, decode it, append the key unless listed,
\* write it back.
RECURSIVE storeIndexLoop(_, _, _, _, _)

storeIndexPut(key, docMap, i, fail, put) ==
  IF put.err THEN [err |-> "backend", s |-> put.s]
  ELSE storeIndexLoop(put.s, key, docMap, i + 1, fail)

\* a Store that appends the key to the posting list without looking for it
storeIndexDecodedAlwaysAppend(s1, key, docMap, i, fail, indexKey, u) ==
  IF u.err THEN [err |-> "decode", s |-> s1]
  ELSE storeIndexPut(key, docMap, i, fail,
                     txPut(s1, indexKey, jsonMarshalList(Append(u.list, key)), fail))

storeIndexDecoded(s1, key, docMap, i, fail, indexKey, u) ==
  IF u.err THEN [err |-> "decode", s |-> s1]
  ELSE storeIndexPut(key, docMap, i, fail,
                     txPut(s1, indexKey,
                           jsonMarshalList(IF Contains(u.list, key) THEN u.list
                                           ELSE Append(u.list, key)),
                           fail))

storeIndexGet(key, docMap, i, fail, indexKey, current) ==
  IF current.st = "error" THEN [err |-> "backend", s |-> current.s]
  ELSE storeIndexDecoded(current.s, key, docMap, i, fail, indexKey,
                         IF current.st = "ok" THEN jsonUnmarshalList(current.data)
                         ELSE [err |-> FALSE, list |-> <<>>])

storeIndexLoop(s, key, docMap, i, fail) ==
  IF i > Len(IndexedFields) THEN [err |-> "none", s |-> s]
  ELSE IF IndexedFields[i] \notin DOMAIN docMap
  THEN storeIndexLoop(s, key, docMap, i + 1, fail)
  ELSE storeIndexGet(key, docMap, i, fail,
                     indexKeyOf(IndexedFields[i], docMap[IndexedFields[i]]),
                     txGet(s, indexKeyOf(IndexedFields[i], docMap[IndexedFields[i]]), fail))

\* Store after the index loop
storeIndexed(fail, idx) ==
  IF idx.err # "none" THEN Ret(idx.err, idx.s)
  ELSE commitReturn(txCommit(idx.s, fail))

\* Store after tx.Put(docKey, data)
storePut(key, docMap, fail, put) ==
  IF put.err THEN Ret("backend", put.s)
  ELSE storeIndexed(fail, storeIndexLoop(put.s, key, docMap, 1, fail))

\* Store(key, document), m being the outcome of marshalJSON(document)
StoreOp(db0, key, document, m, fail) ==
  IF document.t # "object" THEN Ret("invalid", Transaction(db0))
  ELSE IF m.err THEN Ret("encode", Transaction(db0))
  ELSE storePut(key, document.v, fail,
                txPut(Transaction(db0), docKeyOf(key), m.data, fail))

\* a Delete that writes the shortened posting list back even when it is empty
deleteIndexWriteAlways(s, indexKey, newList, fail) ==
  txPut(s, indexKey, jsonMarshalList(newList), fail)

\* Delete: rewrite the shortened posting list, or delete an empty one
deleteIndexWrite(s, indexKey, newList, fail) ==
  IF Len(newList) > 0 THEN txPut(s, indexKey, jsonMarshalList(newList), fail)
  ELSE txDelete(s, indexKey, fail)

\* Delete, the loop over j.indexedFields from position i on: [err, s]
RECURSIVE deleteIndexLoop(_, _, _, _, _)

deleteIndexWritten(key, docMap, i, fail, w) ==
  IF w.err THEN [err |-> "backend", s |-> w.s]
  ELSE deleteIndexLoop(w.s, key, docMap, i + 1, fail)

\* a Delete that drops the whole posting list it finds the key's pairing in
deleteIndexDecodedDropList(s1, key, docMap, i, fail, indexKey, u) ==
  IF u.err THEN [err |-> "decode", s |-> s1]
  ELSE deleteIndexWritten(key, docMap, i, fail, txDelete(s1, indexKey, fail))

deleteIndexDecoded(s1, key, docMap, i, fail, indexKey, u) ==
  IF u.err THEN [err |-> "decode", s |-> s1]
  ELSE deleteIndexWritten(key, docMap, i, fail,
                          deleteIndexWrite(s1, indexKey,
                                           SelectSeq(u.list, LAMBDA k : k # key), fail))

deleteIndexGet(key, docMap, i, fail, indexKey, current) ==
  IF current.st = "error" THEN [err |-> "backend", s |-> current.s]
  ELSE IF current.st = "notfound"
  THEN deleteIndexLoop(current.s, key, docMap, i + 1, fail)
  ELSE deleteIndexDecoded(current.s, key, docMap, i, fail, indexKey,
                          jsonUnmarshalList(current.data))

deleteIndexLoop(s, key, docMap, i, fail) ==
  IF i > Len(IndexedFields) THEN [err |-> "none", s |-> s]
  ELSE IF IndexedFields[i] \notin DOMAIN docMap
  THEN deleteIndexLoop(s, key, docMap, i + 1, fail)
  ELSE deleteIndexGet(key, docMap, i, fail,
                     indexKeyOf(IndexedFields[i], docMap[IndexedFields[i]]),
                     txGet(s, indexKeyOf(IndexedFields[i], docMap[IndexedFields[i]]), fail))

\* Delete after tx.Delete(docKey)
deleteDeleted(fail, del) ==
  IF del.err THEN Ret("backend", del.s) ELSE commitReturn(txCommit(del.s, fail))

\* Delete after the index loop
deleteIndexed(key, fail, idx) ==
  IF idx.err # "none" THEN Ret(idx.err, idx.s)
  ELSE deleteDeleted(fail, txDelete(idx.s, docKeyOf(key), fail))

\* Delete after decoding the stored document
deleteDecoded(s, key, fail, doc) ==
  IF doc.st = "panic" THEN Ret("panic", s)
  ELSE IF doc.st = "err" THEN Ret("decode", s)
  ELSE deleteIndexed(key, fail, deleteIndexLoop(s, key, doc.v.v, 1, fail))

\* a Delete that reports a key without a document as an error
deleteGetMissingFails(key, fail, data) ==
  IF data.st # "ok" THEN Ret(IF data.st = "notfound" THEN "notfound" ELSE "backend", data.s)
  ELSE deleteDecoded(data.s, key, fail, unmarshalMap(data.data))

\* Delete after tx.Get(docKey)
deleteGet(key, fail, data) ==
  IF data.st = "notfound" THEN commitReturn(txCommit(data.s, fail))
  ELSE IF data.st = "error" THEN Ret("backend", data.s)
  ELSE deleteDecoded(data.s, key, fail, unmarshalMap(data.data))

\* Delete(key)
DeleteOp(db0, key, fail) ==
  deleteGet(key, fail, txGet(Transaction(db0), docKeyOf(key), fail))

\* Retrieve after decoding the stored bytes
retrieveDecoded(doc) ==
  IF doc.st = "panic" THEN [err |-> "panic", val |-> NilV, n |-> 1]
  ELSE IF doc.st = "err" THEN [err |-> "decode", val |-> NilV, n |-> 1]
  ELSE [err |-> "none", val |-> doc.v, n |-> 1]

\* Retrieve after j.db.Get(docKey)
retrieveGet(data) ==
  IF data.st = "notfound" THEN [err |-> "notfound", val |-> NilV, n |-> 1]
  ELSE IF data.st = "error" THEN [err |-> "backend", val |-> NilV, n |-> 1]
  ELSE retrieveDecoded(unmarshalMap(data.data))

\* Retrieve(key, &target) with a target of type *map[string]interface{}:
\* [err, val]
RetrieveOp(db0, key, fail) == retrieveGet(dbGet(db0, docKeyOf(key), 1, fail))

\* Query, the loop over keyList from position i on, after n backend calls
RECURSIVE queryFetchLoop(_, _, _, _, _, _)

queryFetchDecoded(db0, keyList, i, results, n, fail, doc) ==
  IF doc.st = "panic" THEN [err |-> "panic", val |-> <<>>, n |-> n + 1]
  ELSE IF doc.st = "err"
  THEN queryFetchLoop(db0, keyList, i + 1, results, n + 1, fail)
  ELSE queryFetchLoop(db0, keyList, i + 1, Append(results, doc.v), n + 1, fail)

queryFetchGet(db0, keyList, i, results, n, fail, docData) ==
  IF docData.st # "ok" THEN queryFetchLoop(db0, keyList, i + 1, results, n + 1, fail)
  ELSE queryFetchDecoded(db0, keyList, i, results, n, fail, unmarshalMap(docData.data))

queryFetchLoop(db0, keyList, i, results, n, fail) ==
  IF i > Len(keyList) THEN [err |-> "none", val |-> results, n |-> n]
  ELSE queryFetchGet(db0, keyList, i, results, n, fail,
                     dbGet(db0, DocPrefix \o keyList[i], n + 1, fail))

\* Query after decoding the posting list
queryDecoded(db0, fail, u) ==
  IF u.err THEN [err |-> "decode", val |-> <<>>, n |-> 1]
  ELSE queryFetchLoop(db0, u.list, 1, <<>>, 1, fail)

\* Query after j.db.Get(indexKey)
queryGet(db0, fail, data) ==
  IF data.st = "notfound" THEN [err |-> "none", val |-> <<>>, n |-> 1]
  ELSE IF data.st = "error" THEN [err |-> "backend", val |-> <<>>, n |-> 1]
  ELSE queryDecoded(db0, fail, jsonUnmarshalList(data.data))

\* a Query that reads the posting list without looking at j.indexedFields
QueryOpUnchecked(db0, field, value, fail) ==
  queryGet(db0, fail, dbGet(db0, indexKeyOf(field, value), 1, fail))

\* Query(field, value): [err, val], val the list of documents
QueryOp(db0, field, value, fail) ==
  IF ~Contains(IndexedFields, field) THEN [err |-> "notindexed", val |-> <<>>, n |-> 0]
  ELSE queryGet(db0, fail, dbGet(db0, indexKeyOf(field, value), 1, fail))

\* BatchStore, the loop over j.indexedFields for one item: [err, s]
RECURSIVE batchIndexLoop(_, _, _, _, _)

batchIndexPut(key, docMap, i, fail, put) ==
  IF put.err THEN [err |-> "backend", s |-> put.s]
  ELSE batchIndexLoop(put.s, key, docMap, i + 1, fail)

batchIndexDecoded(s1, key, docMap, i, fail, indexKey, u) ==
  IF u.err THEN [err |-> "decode", s |-> s1]
  ELSE batchIndexPut(key, docMap, i, fail,
                     txPut(s1, indexKey,
                           jsonMarshalList(IF Contains(u.list, key) THEN u.list
                                           ELSE Append(u.list, key)),
                           fail))

batchIndexGet(key, docMap, i, fail, indexKey, current) ==
  IF current.st = "error" THEN [err |-> "backend", s |-> current.s]
  ELSE batchIndexDecoded(current.s, key, docMap, i, fail, indexKey,
                         IF current.st = "ok" THEN jsonUnmarshalList(current.data)
                         ELSE [err |-> FALSE, list |-> <<>>])

batchIndexLoop(s, key, docMap, i, fail) ==
  IF i > Len(IndexedFields) THEN [err |-> "none", s |-> s]
  ELSE IF IndexedFields[i] \notin DOMAIN docMap
  THEN batchIndexLoop(s, key, docMap, i + 1, fail)
  ELSE batchIndexGet(key, docMap, i, fail,
                     indexKeyOf(IndexedFields[i], docMap[IndexedFields[i]]),
                     txGet(s, indexKeyOf(IndexedFields[i], docMap[IndexedFields[i]]), fail))

\* BatchStore, the loop over keys from position i on; ms[i] is the outcome
\* of marshalJSON(documents[i]): [err, s]
RECURSIVE batchItemLoop(_, _, _, _, _, _)

batchItemIndexed(keys, documents, ms, i, fail, idx) ==
  IF idx.err # "none" THEN idx
  ELSE batchItemLoop(idx.s, keys, documents, ms, i + 1, fail)

batchItemPut(keys, documents, ms, i, fail, put) ==
  IF put.err THEN [err |-> "backend", s |-> put.s]
  ELSE batchItemIndexed(keys, documents, ms, i, fail,
                        batchIndexLoop(put.s, keys[i], documents[i].v, 1, fail))

batchItemLoop(s, keys, documents, ms, i, fail) ==
  IF i > Len(keys) THEN [err |-> "none", s |-> s]
  ELSE IF documents[i].t # "object" THEN [err |-> "invalid", s |-> s]
  ELSE IF ms[i].err THEN [err |-> "encode", s |-> s]
  ELSE batchItemPut(keys, documents, ms, i, fail,
                    txPut(s, docKeyOf(keys[i]), ms[i].data, fail))

\* a BatchStore that commits whatever the loop has written, also after a
\* failing item
batchItemsCommitAnyway(fail, items) == Ret(items.err, txCommit(items.s, fail).s)

\* BatchStore after the loop over the items
batchItems(fail, items) ==
  IF items.err # "none" THEN Ret(items.err, items.s)
  ELSE commitReturn(txCommit(items.s, fail))

\* BatchStore(keys, documents)
BatchStoreOp(db0, keys, documents, ms, fail) ==
  IF Len(keys) # Len(documents) THEN Ret("length", Transaction(db0))
  ELSE batchItems(fail, batchItemLoop(Transaction(db0), keys, documents, ms, 1, fail))

\* BatchRetrieve, the loop over keys from position i on
RECURSIVE batchRetrieveLoop(_, _, _, _, _)

batchRetrieveDecoded(db0, keys, i, results, fail, doc) ==
  IF doc.st = "panic" THEN [err |-> "panic", val |-> <<>>, n |-> i]
  ELSE IF doc.st = "err" THEN [err |-> "decode", val |-> <<>>, n |-> i]
  ELSE batchRetrieveLoop(db0, keys, i + 1, Append(results, doc.v), fail)

\* a BatchRetrieve that fails on the first key without a document
batchRetrieveGetMissingFails(db0, keys, i, results, fail, data) ==
  IF data.st # "ok" THEN [err |-> "backend", val |-> <<>>, n |-> i]
  ELSE batchRetrieveDecoded(db0, keys, i, results, fail, unmarshalMap(data.data))

batchRetrieveGet(db0, keys, i, results, fail, data) ==
  IF data.st = "notfound" THEN batchRetrieveLoop(db0, keys, i + 1, results, fail)
  ELSE IF data.st = "error" THEN [err |-> "backend", val |-> <<>>, n |-> i]
  ELSE batchRetrieveDecoded(db0, keys, i, results, fail, unmarshalMap(data.data))

batchRetrieveLoop(db0, keys, i, results, fail) ==
  IF i > Len(keys) THEN [err |-> "none", val |-> results, n |-> i - 1]
  ELSE batchRetrieveGet(db0, keys, i, results, fail,
                        dbGet(db0, docKeyOf(keys[i]), i, fail))

\* BatchRetrieve(keys)
BatchRetrieveOp(db0, keys, fail) == batchRetrieveLoop(db0, keys, 1, <<>>, fail)

-----------------------------------------------------------------------------
(* Inputs of the model *)

MaxBatch == 2

\* "k1", "k2"
K1 == <<107, 49>>
K2 == <<107, 50>>
Keys == {K1, K2}

F5 == FloatV(FALSE, <<5>>, 1)                   \* 5.0
F6 == FloatV(FALSE, <<6>>, 1)                   \* 6.0
F2p5 == FloatV(FALSE, <<2, 5>>, 1)              \* 2.5
F1e6 == FloatV(FALSE, <<1>>, 7)                 \* 1000000.0
S5 == StringV(<<53>>)                           \* "5"
Sx == StringV(<<120>>)                          \* "x"

DocA5 == ObjectV(<<97>> :> F5)                  \* {"a":5}
DocA6 == ObjectV(<<97>> :> F6)                  \* {"a":6}
DocA5Bx == ObjectV(<<97>> :> F5 @@ <<98>> :> Sx)  \* {"a":5,"b":"x"}

\* documents a caller may pass
Documents == {DocA5, DocA6, DocA5Bx}

\* a value that is not a map, and a map holding an int64
NotAMap == F5
WithInt64 == ObjectV(<<97>> :> Int64V(FALSE, <<5>>))

StoreInputs == Documents \cup {NotAMap, WithInt64}
BatchInputs == {DocA6, NotAMap}

\* values and fields a caller may query for
QueryValues == {F5, F6, S5, Sx}
QueryFields == {<<97>>, <<98>>, <<99>>}

SeqsUpTo(S, n) == UNION {[1..m -> S] : m \in 0..n}

-----------------------------------------------------------------------------
(* State *)

NumProcs == 2
Procs == 1..NumProcs

VARIABLES
  db,       \* the committed key space of the bitcask backend
  stored,   \* history: key -> the document of the last committed store of it
  last,     \* the call that has just returned, op "none" between calls
  prev,     \* history: db when that call began
  pc,       \* concurrent callers: the position of each caller in its call
  running,  \* concurrent callers: the operation each caller is running
  ret,      \* concurrent callers: the error kind its last call returned
  mu,       \* j.mu, the sync.RWMutex of the store
  qlist,    \* Query: keyList still to fetch
  qres,     \* Query: results so far
  qsnap,    \* history: db when the Query read its posting list
  cin,      \* codec: the value given to marshalJSON
  cdata,    \* codec: the outcome of marshalJSON
  cout,     \* codec: the outcome of unmarshalJSON on those bytes
  closed,   \* concurrent callers: Close has released the backend
  names     \* key naming: a document key, two (field, value) pairs, their backend keys

seqVars == <<stored, last, prev>>
concVars == <<pc, running, ret, mu, qlist, qres, qsnap, closed>>
codecVars == <<cin, cdata, cout, names>>
vars ==
  <<db, stored, last, prev, pc, running, ret, mu, qlist, qres, qsnap, cin, cdata, cout,
    closed, names>>

\* j.mu unlocked: w the writer that has announced itself (0: none), readers
\* the holders of the read lock, blocked the readers waiting for the writer
MuFree == [w |-> 0, readers |-> {}, blocked |-> {}]

ConcIdle ==
  /\ pc = [p \in Procs |-> "idle"]
  /\ running = [p \in Procs |-> "none"]
  /\ ret = [p \in Procs |-> "none"]
  /\ mu = MuFree
  /\ qlist = [p \in Procs |-> <<>>]
  /\ qres = [p \in Procs |-> <<>>]
  /\ qsnap = [p \in Procs |-> EmptyMap]
  /\ closed = FALSE

\* no bytes yet, no decoding yet
NoData == [err |-> FALSE, data |-> <<>>]
NoResult == [st |-> "none", v |-> NilV, pos |-> 0]

\* no keys named yet
NoNames ==
  [st |-> "none", key |-> <<>>, f1 |-> <<>>, v1 |-> NilV, f2 |-> <<>>, v2 |-> NilV,
   docKey |-> <<>>, ik1 |-> <<>>, ik2 |-> <<>>]

CodecIdle ==
  /\ cin = NilV
  /\ cdata = NoData
  /\ cout = NoResult
  /\ names = NoNames

SeqIdle ==
  /\ stored = EmptyMap
  /\ last = [op |-> "none", args |-> <<>>, fail |-> 0, err |-> "none", n |-> 0, val |-> <<>>]
  /\ prev = EmptyMap

Call(op, args, fail, r) ==
  [op |-> op, args |-> args, fail |-> fail, err |-> r.err, n |-> r.n,
   val |-> IF "val" \in DOMAIN r THEN r.val ELSE <<>>]

NoCall == [op |-> "none", args |-> <<>>, fail |-> 0, err |-> "none", n |-> 0, val |-> <<>>]

Init ==
  /\ db = EmptyMap
  /\ stored = EmptyMap
  /\ last = NoCall
  /\ prev = EmptyMap
  /\ ConcIdle
  /\ CodecIdle

\* one backend call of the handler fails (1..n, n the calls it makes when
\* none fails), or none does (0)
Faults(r0) == 0..r0.n

\* a writer returns r: its commit, if any, and the record of the call; st
\* is the stored history after a successful call
Written(o, args, fail, r, st) ==
  /\ db' = r.db
  /\ stored' = IF r.err = "none" THEN st ELSE stored
  /\ last' = Call(o, args, fail, r)
  /\ prev' = db
  /\ UNCHANGED <<concVars, codecVars>>

\* a reader that drops the key space it has read
ReadAndClear(o, args, fail, r) ==
  /\ last' = Call(o, args, fail, r)
  /\ prev' = db
  /\ db' = EmptyMap
  /\ UNCHANGED <<stored, concVars, codecVars>>

\* a reader returns r
Read(o, args, fail, r) ==
  /\ last' = Call(o, args, fail, r)
  /\ prev' = db
  /\ UNCHANGED <<db, stored, concVars, codecVars>>

Store ==
  /\ last.op = "none"
  /\ \E key \in Keys, document \in StoreInputs :
       \E m \in marshalJSON(document) :
         \E fail \in Faults(StoreOp(db, key, document, m, 0)) :
           Written("Store", <<key, document>>, fail,
                   StoreOp(db, key, document, m, fail),
                   MapPut(stored, key, document))

Delete ==
  /\ last.op = "none"
  /\ \E key \in Keys :
       \E fail \in Faults(DeleteOp(db, key, 0)) :
         Written("Delete", <<key>>, fail, DeleteOp(db, key, fail),
                 MapRemove(stored, key))

RECURSIVE StoreAll(_, _, _, _)
StoreAll(st, keys, documents, i) ==
  IF i > Len(keys) THEN st
  ELSE StoreAll(MapPut(st, keys[i], documents[i]), keys, documents, i + 1)

BatchStore ==
  /\ last.op = "none"
  /\ \E keys \in SeqsUpTo(Keys, MaxBatch), documents \in SeqsUpTo(BatchInputs, MaxBatch) :
       \E ms \in [DOMAIN documents -> UNION {marshalJSON(d) : d \in BatchInputs}] :
         /\ \A i \in DOMAIN documents : ms[i] \in marshalJSON(documents[i])
         /\ \E fail \in Faults(BatchStoreOp(db, keys, documents, ms, 0)) :
              Written("BatchStore", <<keys, documents>>, fail,
                      BatchStoreOp(db, keys, documents, ms, fail),
                      StoreAll(stored, keys, documents, 1))

Retrieve ==
  /\ last.op = "none"
  /\ \E key \in Keys, fail \in 0..1 :
       Read("Retrieve", <<key>>, fail, RetrieveOp(db, key, fail))

Query ==
  /\ last.op = "none"
  /\ \E field \in QueryFields, value \in QueryValues :
       \E fail \in Faults(QueryOp(db, field, value, 0)) :
         Read("Query", <<field, value>>, fail, QueryOp(db, field, value, fail))

BatchRetrieve ==
  /\ last.op = "none"
  /\ \E keys \in SeqsUpTo(Keys, MaxBatch) :
       \E fail \in Faults(BatchRetrieveOp(db, keys, 0)) :
         Read("BatchRetrieve", <<keys>>, fail, BatchRetrieveOp(db, keys, fail))

\* the caller has taken the result; the next call may begin
Return ==
  /\ last.op # "none"
  /\ last' = NoCall
  /\ prev' = EmptyMap
  /\ UNCHANGED <<db, stored, concVars, codecVars>>

Next == Store \/ Delete \/ BatchStore \/ Retrieve \/ Query \/ BatchRetrieve \/ Return

Spec == Init /\ [][Next]_vars

-----------------------------------------------------------------------------
(* Reading the committed state *)

HasPrefix(k, p) == Len(k) >= Len(p) /\ SubSeq(k, 1, Len(p)) = p

\* the backend keys of the posting lists of an indexed field
IndexKeysOf(db0, field) ==
  {k \in DOMAIN db0 : HasPrefix(k, IndexPrefix \o field \o <<58>>)}

\* the bucket identifier in the backend key of a posting list of field
BucketOf(ik, field) == SubSeq(ik, Len(IndexPrefix) + Len(field) + 2, Len(ik))

\* the posting list stored under a backend key
PostingList(db0, ik) == jsonUnmarshalList(db0[ik]).list

FieldSet == {IndexedFields[i] : i \in DOMAIN IndexedFields}

\* key is listed in some posting list of some indexed field
Posted(db0, key) ==
  \E f \in FieldSet : \E ik \in IndexKeysOf(db0, f) : Contains(PostingList(db0, ik), key)

\* the stored document of key has field f with a value of bucket b
DocHasPairing(d, f, b) ==
  d.st = "ok" /\ f \in DOMAIN d.v.v /\ Sprintf(d.v.v[f]) = b

HasPairing(db0, key, f, b) ==
  /\ docKeyOf(key) \in DOMAIN db0
  /\ DocHasPairing(unmarshalMap(db0[docKeyOf(key)]), f, b)

\* the orders in which a finite set can be listed
Orderings(S) ==
  {o \in [1..Cardinality(S) -> S] : \A i, j \in DOMAIN o : i # j => o[i] # o[j]}

-----------------------------------------------------------------------------
(* Claims on the document store *)

\* C1: every key in the posting list of (indexed field f, bucket b) is the
\* key of a stored document whose field f currently has a value of bucket b,
\* also after the key was stored again with another value of f.
C1_PostingsAreCurrent ==
  \A f \in FieldSet : \A ik \in IndexKeysOf(db, f) :
    \A i \in DOMAIN PostingList(db, ik) :
      HasPairing(db, PostingList(db, ik)[i], f, BucketOf(ik, f))

\* C2: Query(f, v) on an indexed field returns exactly one document for each
\* stored key whose document has f equal to v, and nothing else (stated here
\* for the numeric query values).
C2_QueryIsExact ==
  \A f \in FieldSet : \A v \in {F5, F6} :
    LET r == QueryOp(db, f, v, 0)
        expect == {k \in DOMAIN stored : f \in DOMAIN stored[k].v /\ stored[k].v[f] = v}
    IN  /\ r.err = "none"
        /\ Len(r.val) = Cardinality(expect)
        /\ \E o \in Orderings(expect) :
             \A i \in DOMAIN o : r.val[i] = RetrieveOp(db, o[i], 0).val

\* C3: a Store that returns an error leaves the committed key space exactly
\* as it was when the call began.
C3_FailedStoreChangesNothing ==
  (last.op = "Store" /\ last.err # "none") => db = prev

\* a Store failed at a backend call after the document put and an index put
\* were pending, on a non-empty store
C3_Witness ==
  /\ last.op = "Store" /\ last.err = "backend"
  /\ last.args[2] = DocA5Bx /\ last.fail >= 4
  /\ prev # EmptyMap

\* C4: a BatchStore that returns an error commits nothing of the batch.
C4_FailedBatchChangesNothing ==
  (last.op = "BatchStore" /\ last.err # "none") => db = prev

\* a batch failed at its second item, after a valid first item whose key
\* had no document
C4_Witness ==
  /\ last.op = "BatchStore" /\ last.err = "invalid"
  /\ Len(last.args[1]) = 2 /\ last.args[2][1] = DocA6
  /\ docKeyOf(last.args[1][1]) \notin DOMAIN db

\* C5: after a successful Delete(k) of a stored key, Retrieve(k) reports
\* not-found and k is in no posting list of any indexed field.
C5_DeleteRemovesEverything ==
  (last.op = "Delete" /\ last.err = "none" /\ docKeyOf(last.args[1]) \in DOMAIN prev)
    => /\ RetrieveOp(db, last.args[1], 0).err = "notfound"
       /\ ~Posted(db, last.args[1])

\* C8: while the last committed store of k is Store(k, d), Retrieve(k)
\* succeeds and returns an Object equal to d.
C8_RetrieveReturnsStored ==
  \A k \in DOMAIN stored :
    LET r == RetrieveOp(db, k, 0)
    IN  r.err = "none" /\ r.val = stored[k]

\* C10: no posting-list entry of the committed key space holds an empty
\* list; a Delete that removes the last key deletes the entry.
C10_NoEmptyPostingList ==
  \A f \in FieldSet : \A ik \in IndexKeysOf(db, f) :
    ~jsonUnmarshalList(db[ik]).err /\ PostingList(db, ik) # <<>>

\* a Delete removed the only key of a posting list and the entry is gone
C10_Witness ==
  /\ last.op = "Delete" /\ last.err = "none"
  /\ \E f \in FieldSet : \E ik \in IndexKeysOf(prev, f) :
       PostingList(prev, ik) = <<last.args[1]>> /\ ik \notin DOMAIN db

\* C11: no posting list of the committed key space holds the same key
\* twice, also after a key is stored again with the same indexed value by
\* Store or by BatchStore, or several times within one batch.
C11_NoDuplicatePosting ==
  \A f \in FieldSet : \A ik \in IndexKeysOf(db, f) :
    \A i, j \in DOMAIN PostingList(db, ik) :
      PostingList(db, ik)[i] = PostingList(db, ik)[j] => i = j

\* a batch stored one key twice with the same indexed value, the key being
\* listed under that value before the call, and the list still holds it once
C11_Witness ==
  /\ last.op = "BatchStore" /\ last.err = "none"
  /\ last.args[1] = <<K1, K1>> /\ last.args[2] = <<DocA6, DocA6>>
  /\ indexKeyOf(<<97>>, F6) \in DOMAIN prev
  /\ Contains(PostingList(prev, indexKeyOf(<<97>>, F6)), K1)
  /\ Len(SelectSeq(PostingList(db, indexKeyOf(<<97>>, F6)), LAMBDA k : k = K1)) = 1

\* C12: when no backend call fails, Delete(k) of a key that has no stored
\* document returns success and leaves the committed key space (every
\* document, every posting list) as it was; a successful Delete(k) leaves k
\* without a document, so a second Delete(k) is such a call: it succeeds and
\* ends in the state the first one left.
C12_DeleteIsIdempotent ==
  /\ (last.op = "Delete" /\ last.fail = 0 /\ docKeyOf(last.args[1]) \notin DOMAIN prev)
       => (last.err = "none" /\ db = prev)
  /\ (last.op = "Delete" /\ last.err = "none")
       => /\ docKeyOf(last.args[1]) \notin DOMAIN db
          /\ DeleteOp(db, last.args[1], 0).err = "none"
          /\ DeleteOp(db, last.args[1], 0).db = db

\* a Delete of a key without a document returned on a store that holds a
\* document of another key and a posting list naming the deleted key
C12_Witness ==
  /\ last.op = "Delete" /\ last.fail = 0 /\ last.err = "none"
  /\ docKeyOf(last.args[1]) \notin DOMAIN prev
  /\ \E k \in Keys : docKeyOf(k) \in DOMAIN prev
  /\ Posted(prev, last.args[1])

\* C13: Query(f, v) returns the not-indexed error exactly when f is not one
\* of the configured indexed fields, whatever the store holds; for an
\* indexed f with no posting-list entry for the bucket of v it returns the
\* empty list and no error (when the backend read does not fail).
C13_NotIndexedIffUnconfigured ==
  last.op = "Query" =>
    /\ last.err = "notindexed" <=> last.args[1] \notin FieldSet
    /\ (/\ last.args[1] \in FieldSet
        /\ indexKeyOf(last.args[1], last.args[2]) \notin DOMAIN prev
        /\ last.fail = 0)
         => (last.err = "none" /\ last.val = <<>>)

\* a Query on a field that is not configured returned, on a store that
\* holds a document and a posting list for the queried value
C13_Witness ==
  /\ last.op = "Query" /\ last.err = "notindexed"
  /\ last.args = <<<<99>>, F5>>
  /\ K1 \in DOMAIN stored /\ stored[K1] = DocA5
  /\ indexKeyOf(<<97>>, F5) \in DOMAIN prev

\* the input keys that have a document, in input order
PresentKeys(db0, keys) == SelectSeq(keys, LAMBDA k : docKeyOf(k) \in DOMAIN db0)

\* C14: BatchRetrieve(keys) returns, in the order of the input keys, the
\* decoded documents of exactly the input keys that have a document; a key
\* without one contributes nothing and raises no error; when a backend read
\* fails with another error the call returns that error and no result.
C14_BatchRetrieveSelects ==
  last.op = "BatchRetrieve" =>
    IF last.fail = 0
    THEN /\ last.err = "none"
         /\ last.val = [i \in 1..Len(PresentKeys(prev, last.args[1])) |->
                          unmarshalMap(prev[docKeyOf(PresentKeys(prev, last.args[1])[i])]).v]
    ELSE last.err = "backend" /\ last.val = <<>>

\* a BatchRetrieve of a key without a document followed by a key with one
\* returned that one document
C14_Witness ==
  /\ last.op = "BatchRetrieve" /\ last.fail = 0 /\ last.err = "none"
  /\ Len(last.args[1]) = 2
  /\ docKeyOf(last.args[1][1]) \notin DOMAIN prev
  /\ docKeyOf(last.args[1][2]) \in DOMAIN prev
  /\ Len(last.val) = 1

\* the value holds an int64 somewhere
RECURSIVE ContainsInt64(_)
ContainsInt64(val) ==
  CASE val.t = "int64"  -> TRUE
    [] val.t = "array"  -> \E i \in DOMAIN val.v : ContainsInt64(val.v[i])
    [] val.t = "object" -> \E k \in DOMAIN val.v : ContainsInt64(val.v[k])
    [] OTHER -> FALSE

\* C16: the encoder fails on every value that holds an int64, the type the
\* decoder gives an integer literal.  So a Store of such a document fails
\* with the encoder's error and commits nothing, and for every stored
\* document whose Retrieve result r holds an int64, Store(k2, r) fails so
\* and leaves the committed key space as it is.
C16_DecodedIntegersDoNotEncode ==
  /\ (last.op = "Store" /\ ContainsInt64(last.args[2]))
       => (last.err = "encode" /\ db = prev)
  /\ \A k \in Keys : \A r \in {RetrieveOp(db, k, 0)} :
       (r.err = "none" /\ ContainsInt64(r.val))
         => \A k2 \in Keys : \A m \in marshalJSON(r.val) :
              /\ m.err
              /\ StoreOp(db, k2, r.val, m, 0).err = "encode"
              /\ StoreOp(db, k2, r.val, m, 0).db = db

\* a Store of the document that Retrieve returns for a stored key failed
\* in the encoder
C16_Witness ==
  /\ last.op = "Store" /\ last.err = "encode"
  /\ \E k \in Keys :
       /\ RetrieveOp(prev, k, 0).err = "none"
       /\ RetrieveOp(prev, k, 0).val = last.args[2]
       /\ ContainsInt64(last.args[2])
       /\ last.args[1] # k

\* the committed key spaces that Store(keys[i], documents[i]); ...;
\* Store(keys[n], documents[n]) can leave from db0 when no backend call
\* fails, one for each encoding the encoder may choose
RECURSIVE StoreEach(_, _, _, _)
StoreEach(db0, keys, documents, i) ==
  IF i > Len(keys) THEN {db0}
  ELSE UNION {StoreEach(StoreOp(db0, keys[i], documents[i], m, 0).db, keys, documents, i + 1) :
              m \in marshalJSON(documents[i])}

\* C18: when every item is an encodable Object and no backend call fails,
\* BatchStore(keys, documents) succeeds and leaves the committed key space
\* (documents and posting lists, members and order) that the Stores of the
\* items one after the other leave from the same start, also when a key
\* repeats in the batch or items share an indexed pairing.
C18_BatchEqualsStores ==
  (/\ last.op = "BatchStore" /\ last.fail = 0
   /\ Len(last.args[1]) = Len(last.args[2])
   /\ \A i \in DOMAIN last.args[2] :
        last.args[2][i].t = "object" /\ Encodable(last.args[2][i]))
    => /\ last.err = "none"
       /\ db \in StoreEach(prev, last.args[1], last.args[2], 1)

\* a batch stored two keys with the same indexed value, no posting list of
\* that value existing before, and the list names them in batch order
C18_Witness ==
  /\ last.op = "BatchStore" /\ last.err = "none"
  /\ last.args[1] = <<K2, K1>> /\ last.args[2] = <<DocA6, DocA6>>
  /\ indexKeyOf(<<97>>, F6) \notin DOMAIN prev
  /\ docKeyOf(K1) \in DOMAIN prev
  /\ PostingList(db, indexKeyOf(<<97>>, F6)) = <<K2, K1>>

\* C20: Retrieve, Query and BatchRetrieve leave the committed key space as
\* it was when the call began, whether they return a result or an error.
C20_ReadersChangeNothing ==
  last.op \in {"Retrieve", "Query", "BatchRetrieve"} => db = prev

\* a Query returned two documents of a store that holds them
C20_Witness ==
  /\ last.op = "Query" /\ last.err = "none" /\ Len(last.val) = 2
  /\ docKeyOf(K1) \in DOMAIN db /\ docKeyOf(K2) \in DOMAIN db

\* the backend keys of all posting lists
AllIndexKeys(db0) == UNION {IndexKeysOf(db0, f) : f \in FieldSet}

\* the posting list under a backend key, empty when there is no entry
ListAt(db0, ik) == IF ik \in DOMAIN db0 THEN PostingList(db0, ik) ELSE <<>>

\* the list without key
Others(list, key) == SelectSeq(list, LAMBDA x : x # key)

\* the backend keys of the posting lists derived from a document
DerivedIndexKeys(document) ==
  IF document.t # "object" THEN {}
  ELSE {indexKeyOf(f, document.v[f]) : f \in FieldSet \cap DOMAIN document.v}

\* the posting lists the last Store or Delete derives from its document:
\* the caller's for Store, the decoded stored one for Delete
TouchedIndexKeys ==
  IF last.op = "Store" THEN DerivedIndexKeys(last.args[2])
  ELSE IF docKeyOf(last.args[1]) \in DOMAIN prev
  THEN DerivedIndexKeys(unmarshalMap(prev[docKeyOf(last.args[1])]).v)
  ELSE {}

\* C21: a Store or Delete on key k leaves the document of every other key
\* as it was, keeps the other keys of every posting list with their order
\* (a successful Store appends k to the lists it touches unless listed, a
\* successful Delete removes only k from them), and leaves the posting
\* lists not derived from its document unchanged.
C21_OtherKeysUntouched ==
  last.op \in {"Store", "Delete"} =>
    /\ \A k2 \in Keys \ {last.args[1]} :
         /\ docKeyOf(k2) \in DOMAIN db <=> docKeyOf(k2) \in DOMAIN prev
         /\ docKeyOf(k2) \in DOMAIN db => db[docKeyOf(k2)] = prev[docKeyOf(k2)]
    /\ \A ik \in AllIndexKeys(prev) \cup AllIndexKeys(db) \cup TouchedIndexKeys :
         /\ Others(ListAt(db, ik), last.args[1]) = Others(ListAt(prev, ik), last.args[1])
         /\ ik \notin TouchedIndexKeys =>
              /\ ik \in DOMAIN db <=> ik \in DOMAIN prev
              /\ ik \in DOMAIN db => db[ik] = prev[ik]
         /\ (ik \in TouchedIndexKeys /\ last.err = "none" /\ last.op = "Store") =>
              ListAt(db, ik) = IF Contains(ListAt(prev, ik), last.args[1])
                               THEN ListAt(prev, ik)
                               ELSE Append(ListAt(prev, ik), last.args[1])
         /\ (ik \in TouchedIndexKeys /\ last.err = "none" /\ last.op = "Delete") =>
              ListAt(db, ik) = Others(ListAt(prev, ik), last.args[1])

\* a Delete removed its key from a posting list that also names another
\* key, and that key is still listed
C21_Witness ==
  /\ last.op = "Delete" /\ last.err = "none"
  /\ \E ik \in TouchedIndexKeys : \E k2 \in Keys \ {last.args[1]} :
       /\ Contains(ListAt(prev, ik), last.args[1])
       /\ Contains(ListAt(prev, ik), k2)
       /\ ListAt(db, ik) = <<k2>>

-----------------------------------------------------------------------------
(* Concurrent callers.  Each caller runs one public operation at a time:   *)
(*   idle -> (check ->) lock -> (wait ->) work -> (fetch ->) unlock -> idle *)
(* The handler's work under the lock is one step, except Query, whose      *)
(* posting-list read and document fetches are separate backend reads.      *)

ConcOps == {"Store", "Delete", "BatchStore", "Retrieve", "Query", "BatchRetrieve", "Close"}

\* every operation takes the read lock
LockModeAllShared(o) == "shared"

\* only Delete and BatchStore take the write lock
LockModeStoreShared(o) == IF o \in {"Delete", "BatchStore"} THEN "exclusive" ELSE "shared"

\* Close takes the read lock
LockModeCloseShared(o) ==
  IF o \in {"Store", "Delete", "BatchStore"} THEN "exclusive" ELSE "shared"

\* j.mu.Lock() or j.mu.RLock(), with the matching deferred unlock
LockMode(o) ==
  IF o \in {"Store", "Delete", "BatchStore", "Close"} THEN "exclusive" ELSE "shared"

ConcKeys == {K1}
ConcDocs == {DocA5, DocA6}
ConcBatches ==
  UNION {[1..m -> ConcKeys] \X [1..m -> {DocA6, NotAMap}] : m \in 0..MaxBatch}

InitConc ==
  /\ db = EmptyMap
  /\ SeqIdle
  /\ ConcIdle
  /\ CodecIdle

Goto(p, l) == pc' = [pc EXCEPT ![p] = l]

\* a caller invokes an operation; no operation is invoked on a store whose
\* Close has returned
Invoke(p) ==
  /\ pc[p] = "idle"
  /\ ~closed
  /\ \E o \in ConcOps :
       /\ running' = [running EXCEPT ![p] = o]
       /\ Goto(p, IF o = "BatchStore" THEN "check" ELSE "lock")
  /\ UNCHANGED <<db, seqVars, ret, mu, qlist, qres, qsnap, codecVars, closed>>

\* BatchStore compares len(keys) and len(documents) before taking the lock
BatchCheck(p) ==
  /\ pc[p] = "check"
  /\ \E mismatch \in BOOLEAN :
       IF mismatch
       THEN /\ Goto(p, "idle")
            /\ running' = [running EXCEPT ![p] = "none"]
       ELSE /\ Goto(p, "lock")
            /\ UNCHANGED running
  /\ UNCHANGED <<db, seqVars, ret, mu, qlist, qres, qsnap, codecVars, closed>>

\* sync.RWMutex: Lock announces the writer, RLock enters unless a writer
\* has announced itself
Lock(p) ==
  /\ pc[p] = "lock"
  /\ IF LockMode(running[p]) = "exclusive"
     THEN /\ mu.w = 0
          /\ mu' = [mu EXCEPT !.w = p]
          /\ Goto(p, "wait")
     ELSE IF mu.w = 0
     THEN /\ mu' = [mu EXCEPT !.readers = mu.readers \cup {p}]
          /\ Goto(p, "work")
     ELSE /\ mu' = [mu EXCEPT !.blocked = mu.blocked \cup {p}]
          /\ Goto(p, "wait")
  /\ UNCHANGED <<db, seqVars, running, ret, qlist, qres, qsnap, codecVars, closed>>

\* sync.RWMutex: the writer proceeds when the readers have left, a blocked
\* reader when the writer has unlocked
Wake(p) ==
  /\ pc[p] = "wait"
  /\ IF LockMode(running[p]) = "exclusive"
     THEN mu.w = p /\ mu.readers = {}
     ELSE p \in mu.readers
  /\ Goto(p, "work")
  /\ UNCHANGED <<db, seqVars, running, ret, mu, qlist, qres, qsnap, codecVars, closed>>

Returns(p, e) == ret' = [ret EXCEPT ![p] = e] /\ Goto(p, "unlock")

\* a writer returns r: its commit, if any, and its error kind
Commits(p, r) == db' = r.db /\ Returns(p, r.err)

StoreWork(p) ==
  /\ pc[p] = "work" /\ running[p] = "Store"
  /\ \E key \in ConcKeys, document \in ConcDocs \cup {NotAMap} :
       \E m \in marshalJSON(document) :
         \E fail \in Faults(StoreOp(db, key, document, m, 0)) :
           Commits(p, StoreOp(db, key, document, m, fail))
  /\ UNCHANGED <<seqVars, running, mu, qlist, qres, qsnap, codecVars, closed>>

DeleteWork(p) ==
  /\ pc[p] = "work" /\ running[p] = "Delete"
  /\ \E key \in ConcKeys :
       \E fail \in Faults(DeleteOp(db, key, 0)) :
         Commits(p, DeleteOp(db, key, fail))
  /\ UNCHANGED <<seqVars, running, mu, qlist, qres, qsnap, codecVars, closed>>

BatchStoreWork(p) ==
  /\ pc[p] = "work" /\ running[p] = "BatchStore"
  /\ \E b \in ConcBatches :
       \E ms \in [DOMAIN b[2] -> UNION {marshalJSON(d) : d \in {DocA6, NotAMap}}] :
         /\ \A i \in DOMAIN b[2] : ms[i] \in marshalJSON(b[2][i])
         /\ \E fail \in Faults(BatchStoreOp(db, b[1], b[2], ms, 0)) :
              Commits(p, BatchStoreOp(db, b[1], b[2], ms, fail))
  /\ UNCHANGED <<seqVars, running, mu, qlist, qres, qsnap, codecVars, closed>>

RetrieveWork(p) ==
  /\ pc[p] = "work" /\ running[p] = "Retrieve"
  /\ \E key \in ConcKeys, fail \in 0..1 : Returns(p, RetrieveOp(db, key, fail).err)
  /\ UNCHANGED <<db, seqVars, running, mu, qlist, qres, qsnap, codecVars, closed>>

BatchRetrieveWork(p) ==
  /\ pc[p] = "work" /\ running[p] = "BatchRetrieve"
  /\ \E keys \in SeqsUpTo(ConcKeys, MaxBatch) :
       \E fail \in Faults(BatchRetrieveOp(db, keys, 0)) :
         Returns(p, BatchRetrieveOp(db, keys, fail).err)
  /\ UNCHANGED <<db, seqVars, running, mu, qlist, qres, qsnap, codecVars, closed>>

\* Close: j.db.Close() under the write lock; the backend is released unless
\* it reports an error
CloseWork(p) ==
  /\ pc[p] = "work" /\ running[p] = "Close"
  /\ \E e \in {"none", "backend"} :
       /\ closed' = (closed \/ e = "none")
       /\ Returns(p, e)
  /\ UNCHANGED <<db, seqVars, running, mu, qlist, qres, qsnap, codecVars>>

\* Query after decoding the posting list: the loop over keyList begins
QueryListDecoded(p, u) ==
  IF u.err THEN Returns(p, "decode") /\ UNCHANGED <<qlist, qsnap>>
  ELSE /\ qlist' = [qlist EXCEPT ![p] = u.list]
       /\ qsnap' = [qsnap EXCEPT ![p] = db]
       /\ Goto(p, "fetch")
       /\ UNCHANGED ret

\* Query after j.db.Get(indexKey)
QueryListGet(p, data) ==
  IF data.st = "notfound" THEN Returns(p, "none") /\ UNCHANGED <<qlist, qsnap>>
  ELSE IF data.st = "error" THEN Returns(p, "backend") /\ UNCHANGED <<qlist, qsnap>>
  ELSE QueryListDecoded(p, jsonUnmarshalList(data.data))

\* Query up to the decoding of the posting list
QueryList(p) ==
  /\ pc[p] = "work" /\ running[p] = "Query"
  /\ \E field \in {<<97>>, <<99>>}, value \in {F5, F6}, fail \in 0..1 :
       IF ~Contains(IndexedFields, field)
       THEN Returns(p, "notindexed") /\ UNCHANGED <<qlist, qsnap>>
       ELSE QueryListGet(p, dbGet(db, indexKeyOf(field, value), 1, fail))
  /\ UNCHANGED <<db, seqVars, running, mu, qres, codecVars, closed>>

\* Query, one turn of the loop after decoding the fetched document
QueryFetchDecoded(p, k, doc) ==
  IF doc.st = "panic"
  THEN Returns(p, "panic") /\ UNCHANGED <<qlist, qres>>
  ELSE /\ qlist' = [qlist EXCEPT ![p] = Tail(qlist[p])]
       /\ qres' = [qres EXCEPT ![p] =
                     IF doc.st = "ok" THEN Append(qres[p], <<k, doc.v>>) ELSE qres[p]]
       /\ UNCHANGED <<pc, ret>>

\* Query, one turn of the loop after j.db.Get(docKey)
QueryFetchGet(p, k, docData) ==
  IF docData.st # "ok"
  THEN /\ qlist' = [qlist EXCEPT ![p] = Tail(qlist[p])]
       /\ UNCHANGED <<qres, pc, ret>>
  ELSE QueryFetchDecoded(p, k, unmarshalMap(docData.data))

\* Query, one turn of the loop over keyList: the fetched document is
\* appended with its key, a failed fetch or decode is skipped
QueryFetch(p) ==
  /\ pc[p] = "fetch"
  /\ IF qlist[p] = <<>>
     THEN Returns(p, "none") /\ UNCHANGED <<qlist, qres>>
     ELSE \E fail \in 0..1 :
            QueryFetchGet(p, Head(qlist[p]),
                          dbGet(db, DocPrefix \o Head(qlist[p]), 1, fail))
  /\ UNCHANGED <<db, seqVars, running, mu, qsnap, codecVars, closed>>

\* an unlock that is skipped on an error return
UnlockOnSuccess(p) ==
  /\ pc[p] = "unlock"
  /\ mu' = IF ret[p] # "none" THEN mu
           ELSE IF LockMode(running[p]) = "exclusive"
           THEN [w |-> 0, readers |-> mu.blocked, blocked |-> {}]
           ELSE [mu EXCEPT !.readers = mu.readers \ {p}]
  /\ Goto(p, "idle")
  /\ running' = [running EXCEPT ![p] = "none"]
  /\ ret' = [ret EXCEPT ![p] = "none"]
  /\ qlist' = [qlist EXCEPT ![p] = <<>>]
  /\ qres' = [qres EXCEPT ![p] = <<>>]
  /\ qsnap' = [qsnap EXCEPT ![p] = EmptyMap]
  /\ UNCHANGED <<db, seqVars, codecVars, closed>>

\* the deferred j.mu.Unlock() or j.mu.RUnlock(), and the return
Unlock(p) ==
  /\ pc[p] = "unlock"
  /\ mu' = IF LockMode(running[p]) = "exclusive"
           THEN [w |-> 0, readers |-> mu.blocked, blocked |-> {}]
           ELSE [mu EXCEPT !.readers = mu.readers \ {p}]
  /\ Goto(p, "idle")
  /\ running' = [running EXCEPT ![p] = "none"]
  /\ ret' = [ret EXCEPT ![p] = "none"]
  /\ qlist' = [qlist EXCEPT ![p] = <<>>]
  /\ qres' = [qres EXCEPT ![p] = <<>>]
  /\ qsnap' = [qsnap EXCEPT ![p] = EmptyMap]
  /\ UNCHANGED <<db, seqVars, codecVars, closed>>

NextConc ==
  \E p \in Procs :
    \/ Invoke(p) \/ BatchCheck(p) \/ Lock(p) \/ Wake(p)
    \/ StoreWork(p) \/ DeleteWork(p) \/ BatchStoreWork(p)
    \/ RetrieveWork(p) \/ BatchRetrieveWork(p)
    \/ QueryList(p) \/ QueryFetch(p) \/ CloseWork(p) \/ Unlock(p)

SpecConc == InitConc /\ [][NextConc]_vars

Inside(p) == pc[p] \in {"work", "fetch", "unlock"}

Writer(p) == running[p] \in {"Store", "Delete", "BatchStore"}

\* C6: while a Store, Delete or BatchStore is inside its locked section no
\* other operation is inside its own; readers may be inside together.
C6_WritersAreAlone ==
  \A p, q \in Procs : (p # q /\ Inside(p) /\ Writer(p)) => ~Inside(q)

\* a writer has committed under the lock while another caller is held off
C6_Witness ==
  \E p, q \in Procs :
    /\ p # q /\ Writer(p) /\ pc[p] = "unlock" /\ ret[p] = "none" /\ db # EmptyMap
    /\ pc[q] \in {"lock", "wait"}

\* two readers are inside their locked sections at the same time
C6_ReadersOverlap ==
  \E p, q \in Procs : p # q /\ Inside(p) /\ Inside(q) /\ ~Writer(p) /\ ~Writer(q)

\* C7: no writer's commit takes effect between a Query's read of the
\* posting list and its last document fetch: every document it fetched is
\* the one of the committed state its posting list was read from.
C7_QueryReadsOneState ==
  \A p \in Procs :
    (running[p] = "Query" /\ pc[p] = "fetch")
      => /\ db = qsnap[p]
         /\ \A i \in DOMAIN qres[p] :
              /\ DocPrefix \o qres[p][i][1] \in DOMAIN qsnap[p]
              /\ qres[p][i][2] = unmarshalMap(qsnap[p][DocPrefix \o qres[p][i][1]]).v

\* a Query has fetched a document while a writer waits for the lock
C7_Witness ==
  \E p, q \in Procs :
    /\ running[p] = "Query" /\ pc[p] = "fetch" /\ qres[p] # <<>>
    /\ Writer(q) /\ pc[q] = "wait"

\* The lock discipline on its own.  The body of a handler between taking
\* the lock and its return is one step that ends with one of the handler's
\* error kinds: the bodies are straight-line code and loops over finite
\* lists, and what they compute does not matter to the lock.
Outcomes(o) ==
  CASE o \in {"Store", "BatchStore"} -> {"none", "invalid", "encode", "backend", "decode"}
    [] o \in {"Delete", "BatchRetrieve"} -> {"none", "backend", "decode", "panic"}
    [] o = "Retrieve" -> {"none", "notfound", "backend", "decode", "panic"}
    [] o = "Query"    -> {"none", "notindexed", "backend", "decode", "panic"}
    [] o = "Close"    -> {"none", "backend"}

\* the handler body of caller p runs to its return; the deferred unlock
\* follows also when the body panics
Body(p) ==
  /\ pc[p] = "work"
  /\ \E e \in Outcomes(running[p]) :
       /\ closed' = (closed \/ (running[p] = "Close" /\ e = "none"))
       /\ Returns(p, e)
  /\ UNCHANGED <<db, seqVars, running, mu, qlist, qres, qsnap, codecVars>>

\* the steps of caller p inside a call
Step(p) == BatchCheck(p) \/ Lock(p) \/ Wake(p) \/ Body(p) \/ Unlock(p)

NextLock == \E p \in Procs : Invoke(p) \/ Step(p)

\* every caller is a goroutine that keeps being scheduled and whose backend
\* calls return; a goroutine in j.mu.Lock() is not overtaken for ever
\* (sync.Mutex hands the lock to a starving waiter)
SpecLock ==
  /\ InitConc /\ [][NextLock]_vars
  /\ \A p \in Procs : WF_vars(Step(p)) /\ SF_vars(Lock(p))

\* caller p holds no part of j.mu
HoldsNothing(p) == mu.w # p /\ p \notin mu.readers /\ p \notin mu.blocked

\* C22: every operation, Close included, has released j.mu when it has
\* returned, on error returns too; while a call is in progress some step is
\* possible (no deadlock); and under fair scheduling every invoked
\* operation returns.
C22_EveryCallReturnsUnlocked ==
  /\ [](\A p \in Procs : pc[p] = "idle" => HoldsNothing(p))
  /\ []((\E p \in Procs : pc[p] # "idle") => ENABLED NextLock)
  /\ \A p \in Procs : (pc[p] # "idle") ~> (pc[p] = "idle")

\* a Store has failed at a backend call under the write lock while another
\* caller waits for the lock
C22_Witness ==
  \E p, q \in Procs :
    /\ p # q /\ running[p] = "Store" /\ pc[p] = "unlock" /\ ret[p] = "backend"
    /\ mu.w = p /\ pc[q] = "wait"

\* C24: while Close is inside its locked section, about to close the
\* backend or having closed it, no other operation is inside its own.
C24_CloseIsExclusive ==
  \A p, q \in Procs :
    (p # q /\ running[p] = "Close" /\ Inside(p)) => ~Inside(q)

\* Close has released the backend under the write lock while a reader that
\* called RLock is held off
C24_Witness ==
  \E p, q \in Procs :
    /\ p # q /\ running[p] = "Close" /\ pc[p] = "unlock" /\ closed
    /\ ~Writer(q) /\ pc[q] = "wait" /\ q \in mu.blocked

-----------------------------------------------------------------------------
(* The codec on its own: a value is encoded, the bytes are decoded *)

MaxDepth == 2

F1e21 == FloatV(FALSE, <<1>>, 22)               \* 1e21
FNegZero == FloatV(TRUE, <<>>, 0)               \* -0.0
FSmall == FloatV(TRUE, <<1, 2>>, -2)            \* -0.0012

\* strings with a quote, a backslash, a line feed, U+0001, U+2028, U+00E9
\* and U+10FFFF
CodecStrings ==
  {StringV(<<>>), Sx, StringV(<<34>>), StringV(<<120, 92>>), StringV(<<10, 120>>),
   StringV(<<1>>), StringV(<<8232>>), StringV(<<233>>), StringV(<<MaxRune>>)}

CodecScalars ==
  {NilV, BoolV(TRUE), BoolV(FALSE), F5, F2p5, F1e6, F1e21, FNegZero, FSmall,
   IntV(FALSE, <<5>>), IntV(TRUE, <<1, 2>>), Int64V(FALSE, <<5>>)} \cup CodecStrings

Leaf == {NilV, BoolV(TRUE), F2p5, Sx}

\* arrays and objects over the leaves, nested to depth d
RECURSIVE Nest(_)
Nest(d) ==
  IF d = 0 THEN Leaf
  ELSE LET n == Nest(d - 1)
       IN  Leaf \cup {ArrayV(<<x>>) : x \in n}
                \cup {ArrayV(<<x, y>>) : x \in Leaf, y \in Leaf}
                \cup {ObjectV(<<97>> :> x) : x \in n}
                \cup {ObjectV(<<97>> :> x @@ <<98>> :> y) : x \in Leaf, y \in Leaf}

CodecValues ==
  CodecScalars \cup Nest(MaxDepth)
    \cup {ArrayV(<<>>), ObjectV(EmptyMap), DocA5, ArrayV(<<F5, F2p5>>),
          ObjectV(<<98>> :> Int64V(FALSE, <<5>>))}

InitCodec ==
  /\ db = EmptyMap
  /\ SeqIdle
  /\ ConcIdle
  /\ cin \in CodecValues
  /\ cdata = NoData
  /\ cout = NoResult
  /\ names = NoNames

\* data, err := marshalJSON(v)
Marshal ==
  /\ cdata = NoData
  /\ cdata' \in marshalJSON(cin)
  /\ UNCHANGED <<db, seqVars, concVars, cin, cout, names>>

\* err = unmarshalJSON(data, &target) with a target of type *interface{}
Unmarshal ==
  /\ cdata # NoData /\ ~cdata.err
  /\ cout = NoResult
  /\ cout' = unmarshalJSON(cdata.data)
  /\ UNCHANGED <<db, seqVars, concVars, cin, cdata, names>>

NextCodec == Marshal \/ Unmarshal

SpecCodec == InitCodec /\ [][NextCodec]_vars

\* the value is built from the shapes Null, Bool, Float, String, Array, Object
RECURSIVE AcceptedShape(_)
AcceptedShape(val) ==
  CASE val.t \in {"nil", "bool", "float64", "string"} -> TRUE
    [] val.t = "array"  -> \A i \in DOMAIN val.v : AcceptedShape(val.v[i])
    [] val.t = "object" -> \A k \in DOMAIN val.v : AcceptedShape(val.v[k])
    [] OTHER -> FALSE

\* C9: for every value of the accepted shapes decode(encode(v)) succeeds and
\* is structurally equal to v, with the same variant tag at every position.
C9_RoundTrip ==
  (AcceptedShape(cin) /\ cout # NoResult) => (cout.st = "ok" /\ cout.v = cin)

\* C19: for every field value the encoder accepts, the bucket identifier
\* that Store derives from the caller's value equals the one that Delete
\* derives from the decoding of its encoding.
C19_BucketSurvivesRoundTrip ==
  cout.st = "ok" => Sprintf(cout.v) = Sprintf(cin)

-----------------------------------------------------------------------------
(* The decoder on its own: bytes that no encoder wrote are decoded *)

MaxInputLen == 3

\* the bytes { } [ ] " : , space a 1 \ -
DecodeAlphabet == {123, 125, 91, 93, 34, 58, 44, 32, 97, 49, 92, 45}

\* {"a":1, "b":[1,2]}  "a\u00e9\n"  [true, null,-1.5e2]
\* {"a":{"b":"abc"} }  "abc"  [1,2]
SampleTexts ==
  {<<123, 34, 97, 34, 58, 49, 44, 32, 34, 98, 34, 58, 91, 49, 44, 50, 93, 125>>,
   <<34, 97, 92, 117, 48, 48, 101, 57, 92, 110, 34>>,
   <<91, 116, 114, 117, 101, 44, 32, 110, 117, 108, 108, 44, 45, 49, 46, 53, 101, 50, 93>>,
   <<123, 34, 97, 34, 58, 123, 34, 98, 34, 58, 34, 97, 98, 99, 34, 125, 32, 125>>,
   <<34, 97, 98, 99, 34>>,
   <<91, 49, 44, 50, 93>>}

\* every prefix of every sample text, as it is and followed by a space
Truncations ==
  UNION {{SubSeq(text, 1, n) \o w : n \in 0..Len(text), w \in {<<>>, <<32>>}} :
         text \in SampleTexts}

\* 0  -0  5  -12  007  100  -  1-2
\* --1  1+2  9223372036854775807  9223372036854775808  -9223372036854775808  -9223372036854775809  12345678901234567890  1.5
\* -1.5  1.0  5e0  1e2  1E2  1e-2  1.  1e
\* -e  1.5.2
NumberLiterals ==
  {<<48>>,
   <<45, 48>>,
   <<53>>,
   <<45, 49, 50>>,
   <<48, 48, 55>>,
   <<49, 48, 48>>,
   <<45>>,
   <<49, 45, 50>>,
   <<45, 45, 49>>,
   <<49, 43, 50>>,
   <<57, 50, 50, 51, 51, 55, 50, 48, 51, 54, 56, 53, 52, 55, 55, 53, 56, 48, 55>>,
   <<57, 50, 50, 51, 51, 55, 50, 48, 51, 54, 56, 53, 52, 55, 55, 53, 56, 48, 56>>,
   <<45, 57, 50, 50, 51, 51, 55, 50, 48, 51, 54, 56, 53, 52, 55, 55, 53, 56, 48, 56>>,
   <<45, 57, 50, 50, 51, 51, 55, 50, 48, 51, 54, 56, 53, 52, 55, 55, 53, 56, 48, 57>>,
   <<49, 50, 51, 52, 53, 54, 55, 56, 57, 48, 49, 50, 51, 52, 53, 54, 55, 56, 57, 48>>,
   <<49, 46, 53>>,
   <<45, 49, 46, 53>>,
   <<49, 46, 48>>,
   <<53, 101, 48>>,
   <<49, 101, 50>>,
   <<49, 69, 50>>,
   <<49, 101, 45, 50>>,
   <<49, 46>>,
   <<49, 101>>,
   <<45, 101>>,
   <<49, 46, 53, 46, 50>>}

\* {} x   1 2   "a" "b"   null x   and, with whitespace only around it,  {}
TrailingTexts ==
  {<<123, 125, 32, 120>>,
   <<49, 32, 50>>,
   <<34, 97, 34, 32, 34, 98, 34>>,
   <<110, 117, 108, 108, 32, 120>>,
   <<32, 123, 125, 32>>}

DecoderInputs ==
  SeqsUpTo(DecodeAlphabet, MaxInputLen) \cup Truncations \cup NumberLiterals
    \cup TrailingTexts

InitDecode ==
  /\ db = EmptyMap
  /\ SeqIdle
  /\ ConcIdle
  /\ cin = NilV
  /\ cdata \in {[err |-> FALSE, data |-> b] : b \in DecoderInputs}
  /\ cout = NoResult
  /\ names = NoNames

\* err = unmarshalJSON(data, &target) on the caller's bytes, with a target
\* of type *interface{}
Decode ==
  /\ cout = NoResult
  /\ cout' = unmarshalJSON(cdata.data)
  /\ UNCHANGED <<db, seqVars, concVars, cin, cdata, names>>

NextDecode == Decode

SpecDecode == InitDecode /\ [][NextDecode]_vars

\* C15: on every input the decoder returns a value or a syntax error; it
\* never indexes the input at or past its end (a run-time panic of the
\* caller's goroutine).
C15_DecoderNeverCrashes ==
  cout # NoResult => cout.st \in {"ok", "err"}

\* the input is one numeric literal: a run of the bytes parseNumber
\* consumes, starting with a digit or '-'
IsLiteral(data) ==
  /\ data # <<>>
  /\ \A i \in DOMAIN data : Digit(data[i]) \/ data[i] \in {45, 43, 46, 101, 69}
  /\ Digit(data[1]) \/ data[1] = 45

\* the literal has a fraction or exponent marker
HasMarker(lit) == \E i \in DOMAIN lit : lit[i] \in {46, 101, 69}

\* the literal without its sign
Unsigned(lit) == IF lit[1] = 45 THEN Tail(lit) ELSE lit

\* an optional '-' and one or more decimal digits
IsInteger(lit) ==
  Unsigned(lit) # <<>> /\ \A i \in DOMAIN Unsigned(lit) : Digit(Unsigned(lit)[i])

\* the decimal digits of the magnitude, without leading zeros
Magnitude(lit) == StripZeros([i \in DOMAIN Unsigned(lit) |-> Unsigned(lit)[i] - 48])

\* -2^63 <= value <= 2^63 - 1
InInt64(lit) ==
  ~DigitsGreater(Magnitude(lit), IF lit[1] = 45 THEN MinInt64Digits ELSE MaxInt64Digits)

\* C17: a numeric literal without '.', 'e' or 'E' decodes to an int64 of
\* exactly the literal's value when that value is in [-2^63, 2^63 - 1], and
\* to an error when it is out of range or malformed; a literal with '.',
\* 'e' or 'E' never decodes to an int64.
C17_IntegerLiterals ==
  (cout # NoResult /\ IsLiteral(cdata.data)) =>
    IF HasMarker(cdata.data) THEN ~(cout.st = "ok" /\ cout.v.t = "int64")
    ELSE IF IsInteger(cdata.data) /\ InInt64(cdata.data)
    THEN /\ cout.st = "ok"
         /\ cout.v = Int64V(cdata.data[1] = 45 /\ Magnitude(cdata.data) # <<0>>,
                            Magnitude(cdata.data))
    ELSE cout.st = "err"

\* the literal of -2^63 was decoded to the int64 of that value
C17_Witness ==
  /\ cdata.data = <<45>> \o DigitChars(MinInt64Digits)
  /\ cout.st = "ok" /\ cout.v = Int64V(TRUE, MinInt64Digits)

\* C25: decoding succeeds only when nothing but whitespace follows the
\* first complete value: when a byte that is not whitespace follows it, the
\* decoder returns an error and no value.
C25_TrailingBytesRejected ==
  cout.st = "ok" =>
    \A i \in (cout.pos + 1)..Len(cdata.data) : cdata.data[i] \in {32, 10, 13, 9}

-----------------------------------------------------------------------------
(* The naming of backend keys on its own: a document key and the index     *)
(* keys of two (field, value) pairs are built as Store, Delete and Query   *)
(* build them.                                                             *)

\* document keys: k1, the empty key, index:a:5, :a
NameKeys == {K1, <<>>, IndexPrefix \o <<97, 58, 53>>, <<58, 97>>}

\* field names: a, ab, the empty name, and a:b, which holds the delimiter
NameFields == {<<97>>, <<97, 98>>, <<>>, <<97, 58, 98>>}

\* field values: 5, "5", "b5", "b:5", ":", ""
NameValues ==
  {F5, S5, StringV(<<98, 53>>), StringV(<<98, 58, 53>>), StringV(<<58>>), StringV(<<>>)}

InitNames ==
  /\ db = EmptyMap
  /\ SeqIdle
  /\ ConcIdle
  /\ cin = NilV
  /\ cdata = NoData
  /\ cout = NoResult
  /\ names \in {[NoNames EXCEPT !.st = "chosen", !.key = k,
                                !.f1 = f1, !.v1 = v1, !.f2 = f2, !.v2 = v2] :
                  k \in NameKeys, f1 \in NameFields, v1 \in NameValues,
                  f2 \in NameFields, v2 \in NameValues}

\* docKey := "doc:" + key; indexKey := "index:" + field + ":" + valueStr
MakeKeys ==
  /\ names.st = "chosen"
  /\ names' = [names EXCEPT !.st = "made",
                            !.docKey = docKeyOf(names.key),
                            !.ik1 = indexKeyOf(names.f1, names.v1),
                            !.ik2 = indexKeyOf(names.f2, names.v2)]
  /\ UNCHANGED <<db, seqVars, concVars, cin, cdata, cout>>

NextNames == MakeKeys

SpecNames == InitNames /\ [][NextNames]_vars

\* C23: the backend key of a document and the backend key of a posting
\* list are never the same key, whatever the document key is (one begins
\* with doc:, the other with index:), so a write of one never lands on the
\* other; and when neither field name holds ':', different (field, bucket)
\* pairs have different index keys.
C23_NamespacesAreDisjoint ==
  names.st = "made" =>
    /\ names.docKey \notin {names.ik1, names.ik2}
    /\ HasPrefix(names.docKey, DocPrefix) /\ ~HasPrefix(names.docKey, IndexPrefix)
    /\ HasPrefix(names.ik1, IndexPrefix) /\ ~HasPrefix(names.ik1, DocPrefix)
    /\ (/\ ~Contains(names.f1, 58) /\ ~Contains(names.f2, 58)
        /\ <<names.f1, Sprintf(names.v1)>> # <<names.f2, Sprintf(names.v2)>>)
         => names.ik1 # names.ik2

\* the keys were built for a document key that reads like an index key and
\* for the pairs (a, "b5") and (ab, "5"), and all three differ
C23_Witness ==
  /\ names.st = "made"
  /\ names.key = IndexPrefix \o <<97, 58, 53>>
  /\ names.f1 = <<97>> /\ names.v1 = StringV(<<98, 53>>)
  /\ names.f2 = <<97, 98>> /\ names.v2 = S5
  /\ names.ik1 # names.ik2 /\ names.docKey # names.ik1

\* with a field name that holds ':' two different pairs share an index key
C23_DelimiterInFieldCollides ==
  /\ names.st = "made"
  /\ <<names.f1, Sprintf(names.v1)>> # <<names.f2, Sprintf(names.v2)>>
  /\ names.ik1 = names.ik2

=============================================================================
